---- MODULE Spec2Model ----
(***************************************************************************)
(* Resume scoring engine of the "profile" Django application.              *)
(*                                                                         *)
(* The repository holds two parallel implementations of the engine:        *)
(*   src/main/utils.py        (imported by views.py)  -> plain names       *)
(*   src/main/score_utils.py                          -> names with su_    *)
(*                                                                         *)
(* Text.  A resume text is a sequence of lexemes; the text it stands for   *)
(* is their concatenation.  The vocabulary is chosen so that every literal *)
(* of the source's patterns ("github.com", "linkedin.com/in/", "https://", *)
(* the certification words, the portfolio suffixes) can only occur aligned *)
(* to lexeme borders, so substring and regular-expression searches are     *)
(* computed lexeme by lexeme, with the character classes of each lexeme's  *)
(* first and last character deciding the \b word boundaries.               *)
(*                                                                         *)
(* Numbers.  Python floats are modelled by exact rationals: a ratio is a   *)
(* record [n, d] standing for n/d, and round() is round-half-to-even.      *)
(***************************************************************************)
EXTENDS Integers, Sequences, FiniteSets, TLC

VARIABLES pc, fn, args, ret, presence, heap,
          env, session, cache, registered_users, locals, history

\* the state of the web application around the engine: env is what a process
\* finds outside itself (clock, random source, network), session the session
\* store of one browser, cache the cache of django.core.cache, locals the
\* locals of a view function in progress, and history records what has
\* happened so far (it is never read by the program)
web == <<env, session, cache, registered_users, locals, history>>

vars == <<pc, fn, args, ret, presence, heap, web>>

\* the engine alone: nothing of the web application is in play
no_web ==
    /\ env = <<>>
    /\ session = <<>>
    /\ cache = <<>>
    /\ registered_users = <<>>
    /\ locals = <<>>
    /\ history = <<>>

-----------------------------------------------------------------------------
(* Bounds of the model *)

\* a text is the concatenation of at most MaxParts phrases
MaxParts == 2

\* get_grade_tag is exercised on the scores k / ScoreScale, 0 <= k <= 100 * ScoreScale
ScoreScale == 10

-----------------------------------------------------------------------------
(* Python values *)

\* Python's None where a string is expected (Optional[str])
None == "<None>"

\* Python's None where a text is expected
NoneText == <<None>>

\* bool(s) of an Optional[str]: None and "" are falsy
truthy(s) == s # None /\ s # ""

\* (resume_text or "")
or_empty(t) == IF t = NoneText \/ t = <<>> THEN <<>> ELSE t

\* round(n / d) for n >= 0, d > 0: Python 3 rounds half to even
round(n, d) ==
    LET q == n \div d
        r == n % d
    IN  IF 2 * r < d THEN q
        ELSE IF 2 * r > d THEN q + 1
        ELSE IF q % 2 = 0 THEN q ELSE q + 1

RECURSIVE SumSeq(_)
\* sum(xs) of a list of integers
SumSeq(xs) == IF xs = <<>> THEN 0 ELSE Head(xs) + SumSeq(Tail(xs))

\* [c["score"] for c in criteria]
scores_of(criteria) == [i \in 1..Len(criteria) |-> criteria[i].score]

-----------------------------------------------------------------------------
(* Lexemes of a resume text *)

Vocabulary ==
    {"https://", "GitHub", "LeetCode", "LinkedIn", ".com", ".io", "/in/",
     "Certified", " "}

\* str.lower() / re.I on one lexeme
lower(lex) ==
    CASE lex = "GitHub"    -> "github"
      [] lex = "LeetCode"  -> "leetcode"
      [] lex = "LinkedIn"  -> "linkedin"
      [] lex = "Certified" -> "certified"
      [] lex = "Technical" -> "technical"
      [] lex = "Data"      -> "data"
      [] lex = "LinkedIn (Inferred)" -> "linkedin (inferred)"
      [] OTHER             -> lex

\* text.lower()
lower_text(text) == [i \in 1..Len(text) |-> lower(text[i])]

\* the first character of the lexeme is a word character (\w)
first_is_word(lex) == lex \in {"https://", "GitHub", "LeetCode", "LinkedIn", "Certified"}

\* the last character of the lexeme is a word character (\w)
last_is_word(lex) == lex \in {"GitHub", "LeetCode", "LinkedIn", "Certified", ".com", ".io"}

\* every character of the lexeme is in [a-z0-9\-] under re.I
is_host_label(lex) == lex \in {"GitHub", "LeetCode", "LinkedIn", "Certified"}

\* \b just before lexeme i, whose first character is a word character
word_start(text, i) == i = 1 \/ ~last_is_word(text[i - 1])

\* \b just after lexeme i, whose last character is a word character
word_end(text, i) == i = Len(text) \/ ~first_is_word(text[i + 1])

\* pat in text, for a literal made of whole lexemes
contains(text, pat) ==
    \E i \in 1..(Len(text) - Len(pat) + 1) :
        \A k \in 1..Len(pat) : text[i + k - 1] = pat[k]

-----------------------------------------------------------------------------
(* src/main/utils.py: grades, certificate suggestions *)

\* get_grade_tag with the lower bound of "Average" exclusive
get_grade_tag_exclusive(s) ==
    IF s >= 85 * ScoreScale THEN "Excellent"
    ELSE IF s >= 70 * ScoreScale THEN "Good"
    ELSE IF s > 50 * ScoreScale THEN "Average"
    ELSE "Poor"

\* get_grade_tag(score) for the score s / ScoreScale
get_grade_tag(s) ==
    IF s >= 85 * ScoreScale THEN "Excellent"
    ELSE IF s >= 70 * ScoreScale THEN "Good"
    ELSE IF s >= 50 * ScoreScale THEN "Average"
    ELSE "Poor"

\* get_cert_suggestions(domain); the dashes of the titles are written "-"
get_cert_suggestions(domain) ==
    LET d == lower(IF truthy(domain) THEN domain ELSE "")
    IN  IF d = "analytical" THEN
            <<"Google Data Analytics Professional Certificate - Coursera",
              "IBM Data Science Professional Certificate - Coursera",
              "Microsoft Certified: Azure Data Scientist Associate">>
        ELSE IF d = "technical" THEN
            <<"AWS Certified Developer - AWS",
              "Microsoft Certified: Azure Developer Associate",
              "Certified Kubernetes Application Developer (CKAD)">>
        ELSE
            <<"IBM AI Practitioner - Coursera",
              "Google Data Analytics Professional Certificate - Coursera",
              "AWS Certified Developer - AWS">>

\* get_cert_suggestions(domain) of score_utils.py
su_get_cert_suggestions(domain) ==
    LET d == lower(IF truthy(domain) THEN domain ELSE "")
    IN  IF d \in {"analytical", "data", "data analytics", "data science"} THEN
            <<"Google Data Analytics Professional Certificate - Coursera",
              "IBM Data Science Professional Certificate - Coursera",
              "Microsoft Certified: Azure Data Scientist Associate">>
        ELSE IF d \in {"technical", "software", "engineering"} THEN
            <<"AWS Certified Developer - AWS",
              "Microsoft Certified: Azure Developer Associate",
              "Certified Kubernetes Application Developer (CKAD)">>
        ELSE
            <<"IBM AI Practitioner - Coursera",
              "Google Data Analytics Professional Certificate - Coursera",
              "AWS Certified Developer - AWS">>

\* TECHNICAL_WEIGHTS of utils.py
TECHNICAL_WEIGHTS ==
    [k \in {"GitHub Profile", "LeetCode/DSA Skills", "Portfolio Website",
            "LinkedIn Profile", "Resume (ATS Score)", "Certifications & Branding"} |->
        CASE k = "GitHub Profile"            -> 25
          [] k = "LeetCode/DSA Skills"       -> 20
          [] k = "Portfolio Website"         -> 20
          [] k = "LinkedIn Profile"          -> 15
          [] k = "Resume (ATS Score)"        -> 10
          [] k = "Certifications & Branding" -> 10]

-----------------------------------------------------------------------------
(* src/main/utils.py: calculate_dynamic_ats_score *)

\* lexemes that read "." followed by one of com|io|dev|app|me|net|in|org
tld_lexemes == {".com", ".io"}

\* re.search(r"https?://[a-z0-9\-]+\.(com|io|dev|app|me|net|in|org)", text, re.I)
portfolio_presence(text) ==
    \E i \in 1..Len(text) :
        /\ text[i] = "https://"
        /\ \E j \in (i + 1)..(Len(text) - 1) :
              /\ \A k \in (i + 1)..j : is_host_label(text[k])
              /\ text[j + 1] \in tld_lexemes

\* re.search(r"linkedin\.com/in/", text, re.I)
linkedin_presence(text) == contains(lower_text(text), <<"linkedin", ".com", "/in/">>)

\* the alternatives of (certification|certified|course|certificate)
cert_words == {"certification", "certified", "course", "certificate"}

\* re.search(r"\b(certification|certified|course|certificate)\b", text, re.I)
cert_presence(text) ==
    \E i \in 1..Len(text) :
        lower(text[i]) \in cert_words /\ word_start(text, i) /\ word_end(text, i)

\* the five presence flags, utils.py lines 255-260
presence_flags(resume_text, github_username, leetcode_username) ==
    LET text == or_empty(resume_text)
    IN  [github    |-> truthy(github_username),
         leetcode  |-> truthy(leetcode_username),
         portfolio |-> portfolio_presence(text),
         linkedin  |-> linkedin_presence(text),
         cert      |-> cert_presence(text)]

\* one sub-criterion; the "insight" text is left out
crit(name, score, weight) == [name |-> name, score |-> score, weight |-> weight]

\* 1) GitHub Profile
github_criteria(present) ==
    IF present
    THEN <<crit("Public link present", 3, 3),
           crit("Recent activity (assumed)", 4, 5),
           crit("Domain-relevant projects", 4, 6)>>
    ELSE <<crit("Public link present", 0, 3)>>

\* 2) LeetCode / DSA
leetcode_criteria(present) ==
    IF present
    THEN <<crit("Link present", 2, 2),
           crit("Problem variety (assumed)", 3, 5),
           crit("Consistency (assumed)", 3, 4)>>
    ELSE <<crit("Link present", 0, 2)>>

\* 3) Portfolio
portfolio_criteria(present) ==
    IF present
    THEN <<crit("Link present", 2, 2),
           crit("Project write-ups (assumed)", 3, 4),
           crit("Interactive demos (assumed)", 2, 3)>>
    ELSE <<crit("Link present", 0, 2)>>

\* 4) LinkedIn: one criterion either way, worth 3 when present
linkedin_score(present) == IF present THEN 3 ELSE 0

linkedin_criteria(present) == <<crit("Public link present", linkedin_score(present), 3)>>

\* the weight written into sections["LinkedIn"] (a literal, not weights[...])
linkedin_weight == 3

\* 5) Resume (ATS Score): a placeholder
resume_section_score == 65

resume_criteria ==
    <<crit("ATS-friendly layout", 3, 3),
      crit("Action verbs & results", 4, 4),
      crit("Keyword alignment", 3, 3),
      crit("Brevity", 2, 2),
      crit("Clarity", 3, 3)>>

\* cert_score set to 65 before the presence test and never reset
cert_score_unconditional(present) == 65

\* 6) Certifications
cert_score(present) == IF present THEN 65 ELSE 0

cert_criteria(present) ==
    IF present
    THEN <<crit("Role-relevant", 5, 5),
           crit("Credible issuer", 5, 5),
           crit("Recency", 3, 3),
           crit("Completeness", 2, 2)>>
    ELSE <<crit("Certifications present", 0, 15)>>

cert_recs(present) == IF present THEN <<>> ELSE get_cert_suggestions("technical")

\* one entry of sections
section(score, weight, criteria) ==
    [score |-> score, grade |-> get_grade_tag(score * ScoreScale),
     weight |-> weight, sub_criteria |-> criteria]

\* the order in which the sections are inserted
section_order ==
    <<"GitHub Profile", "LeetCode/DSA Skills", "Portfolio Website", "LinkedIn",
      "Resume (ATS Score)", "Certifications & Branding">>

\* the suggestions list: appended to in the GitHub, LeetCode, Portfolio and
\* LinkedIn blocks; the Certifications block appends nothing to it
suggestions_of(p) ==
    (IF p.github THEN <<>> ELSE <<"Add a GitHub profile link with pinned, recent projects.">>)
    \o (IF p.leetcode THEN <<>> ELSE <<"Include a LeetCode link to showcase DSA practice.">>)
    \o (IF p.portfolio THEN <<>> ELSE <<"Publish a simple portfolio with 2-3 best projects.">>)
    \o (IF p.linkedin THEN <<>> ELSE <<"Add a public LinkedIn link (custom URL preferred).">>)

\* sections, utils.py lines 262-383
sections_of(p) ==
    [k \in {section_order[i] : i \in 1..Len(section_order)} |->
        CASE k = "GitHub Profile" ->
               section(SumSeq(scores_of(github_criteria(p.github))) ,
                       TECHNICAL_WEIGHTS["GitHub Profile"], github_criteria(p.github))
          [] k = "LeetCode/DSA Skills" ->
               section(SumSeq(scores_of(leetcode_criteria(p.leetcode))),
                       TECHNICAL_WEIGHTS["LeetCode/DSA Skills"], leetcode_criteria(p.leetcode))
          [] k = "Portfolio Website" ->
               section(SumSeq(scores_of(portfolio_criteria(p.portfolio))),
                       TECHNICAL_WEIGHTS["Portfolio Website"], portfolio_criteria(p.portfolio))
          [] k = "LinkedIn" ->
               section(linkedin_score(p.linkedin), linkedin_weight, linkedin_criteria(p.linkedin))
          [] k = "Resume (ATS Score)" ->
               section(resume_section_score, TECHNICAL_WEIGHTS["Resume (ATS Score)"],
                       resume_criteria)
          [] k = "Certifications & Branding" ->
               [score |-> cert_score(p.cert),
                grade |-> get_grade_tag(cert_score(p.cert) * ScoreScale),
                weight |-> TECHNICAL_WEIGHTS["Certifications & Branding"],
                sub_criteria |-> cert_criteria(p.cert),
                recommendations |-> cert_recs(p.cert)]]

\* sum(s["score"] * (s["weight"] / 100.0) for s in sections.values()), times 100
total_score_x100(sections) ==
    SumSeq([i \in 1..Len(section_order) |->
               sections[section_order[i]].score * sections[section_order[i]].weight])

\* [s.get("score", 0) for s in sections.values()]
all_scores(sections) == [i \in 1..Len(section_order) |-> sections[section_order[i]].score]

\* overall_avg truncating (int(...)) where the code rounds
overall_avg_truncated(sections) == SumSeq(all_scores(sections)) \div Len(all_scores(sections))

\* int(round(sum(all_scores) / max(1, len(all_scores))))
overall_avg(sections) ==
    round(SumSeq(all_scores(sections)),
          IF Len(all_scores(sections)) > 1 THEN Len(all_scores(sections)) ELSE 1)

\* calculate_dynamic_ats_score(resume_text, github_username, leetcode_username,
\* extracted_links); extracted_links is never read
calculate_dynamic_ats_score(resume_text, github_username, leetcode_username, extracted_links) ==
    LET p == presence_flags(resume_text, github_username, leetcode_username)
        sections == sections_of(p)
    IN  [sections              |-> sections,
         total_score           |-> round(total_score_x100(sections), 100),
         overall_score_average |-> overall_avg(sections),
         overall_grade         |-> get_grade_tag(overall_avg(sections) * ScoreScale),
         suggestions           |-> suggestions_of(p)]

-----------------------------------------------------------------------------
(* src/main/score_utils.py *)

\* get_grade_tag(score) of score_utils.py, for the score s / ScoreScale
su_get_grade_tag(s) ==
    IF s >= 85 * ScoreScale THEN "Excellent"
    ELSE IF s >= 70 * ScoreScale THEN "Good"
    ELSE IF s >= 50 * ScoreScale THEN "Average"
    ELSE "Poor"

\* TECHNICAL_WEIGHTS of score_utils.py, in insertion order
su_weight_order ==
    <<"GitHub Profile", "LeetCode/DSA Skills", "Portfolio Website", "LinkedIn",
      "Resume (ATS Score)", "Certifications & Branding">>

su_TECHNICAL_WEIGHTS ==
    [k \in {su_weight_order[i] : i \in 1..Len(su_weight_order)} |->
        CASE k = "GitHub Profile"            -> 25
          [] k = "LeetCode/DSA Skills"       -> 20
          [] k = "Portfolio Website"         -> 20
          [] k = "LinkedIn"                  -> 15
          [] k = "Resume (ATS Score)"        -> 10
          [] k = "Certifications & Branding" -> 10]

\* _has_link(kind): any((lk.get("type") or "").lower() == kind.lower() for lk in extracted_links)
su_has_link(extracted_links, kind) ==
    \E i \in 1..Len(extracted_links) :
        lower(IF truthy(extracted_links[i].type) THEN extracted_links[i].type ELSE "")
            = lower(kind)

\* re.search(r"\b(netlify|vercel|github\.io|\.me|\.io|\.dev|\.app)\b", text, re.I)
su_has_portfolio(text) ==
    \E i \in 1..Len(text) :
        \/ /\ lower(text[i]) \in {"netlify", "vercel"}
           /\ word_start(text, i) /\ word_end(text, i)
        \/ /\ i < Len(text)
           /\ lower(text[i]) = "github" /\ lower(text[i + 1]) = ".io"
           /\ word_start(text, i) /\ word_end(text, i + 1)
        \/ /\ lower(text[i]) \in {".me", ".io", ".dev", ".app"}
           /\ i > 1 /\ last_is_word(text[i - 1])
           /\ word_end(text, i)

\* the five presence flags, score_utils.py lines 155-164
su_presence_flags(resume_text, github_username, leetcode_username, links) ==
    LET extracted_links == links     \* (extracted_links or []) of a list
        text == or_empty(resume_text)
    IN  [github    |-> truthy(github_username)
                          \/ contains(lower_text(text), <<"github", ".com">>),
         leetcode  |-> truthy(leetcode_username)
                          \/ contains(lower_text(text), <<"leetcode", ".com">>),
         portfolio |-> su_has_portfolio(text),
         linkedin  |-> su_has_link(extracted_links, "LinkedIn")
                          \/ contains(lower_text(text), <<"linkedin", ".com", "/in/">>),
         cert      |-> cert_presence(text)]

\* sec(name, score)
su_sec(score) == [score |-> score, grade |-> su_get_grade_tag(score * ScoreScale)]

\* sections, score_utils.py lines 166-180
su_sections_of(p) ==
    [k \in {su_weight_order[i] : i \in 1..Len(su_weight_order)} |->
        CASE k = "GitHub Profile"            -> su_sec(IF p.github THEN 70 ELSE 0)
          [] k = "LeetCode/DSA Skills"       -> su_sec(IF p.leetcode THEN 60 ELSE 0)
          [] k = "Portfolio Website"         -> su_sec(IF p.portfolio THEN 55 ELSE 0)
          [] k = "LinkedIn"                  -> su_sec(IF p.linkedin THEN 60 ELSE 0)
          [] k = "Resume (ATS Score)"        -> su_sec(60)
          [] k = "Certifications & Branding" -> su_sec(IF p.cert THEN 50 ELSE 0)]

\* suggestions, score_utils.py lines 182-187
su_suggestions_of(p) ==
    (IF p.github THEN <<>> ELSE <<"Add a public GitHub link with recent activity.">>)
    \o (IF p.leetcode THEN <<>>
        ELSE <<"Include your LeetCode (or equivalent) problem-solving profile.">>)
    \o (IF p.portfolio THEN <<>>
        ELSE <<"Publish a portfolio (Netlify/Vercel/GitHub Pages) with 2-3 write-ups.">>)
    \o (IF p.linkedin THEN <<>>
        ELSE <<"Link a public LinkedIn profile with a clear headline/summary.">>)
    \o (IF p.cert THEN <<>> ELSE <<"Add 1-2 recent role-relevant certifications.">>)

\* sum(sections[k]["score"] * (TECHNICAL_WEIGHTS[k] / 100.0)
\*     for k in TECHNICAL_WEIGHTS if k in sections), times 100
su_total_score_x100(sections) ==
    SumSeq([i \in 1..Len(su_weight_order) |->
               IF su_weight_order[i] \in DOMAIN sections
               THEN sections[su_weight_order[i]].score * su_TECHNICAL_WEIGHTS[su_weight_order[i]]
               ELSE 0])

\* round(sum(v["score"] for v in sections.values()) / max(1, len(sections)))
su_overall_avg(sections) ==
    round(SumSeq([i \in 1..Len(su_weight_order) |-> sections[su_weight_order[i]].score]),
          IF Cardinality(DOMAIN sections) > 1 THEN Cardinality(DOMAIN sections) ELSE 1)

\* calculate_dynamic_ats_score(resume_text, github_username, leetcode_username,
\* extracted_links) of score_utils.py; the domain parameter is never read
su_calculate_dynamic_ats_score(resume_text, github_username, leetcode_username, extracted_links) ==
    LET p == su_presence_flags(resume_text, github_username, leetcode_username, extracted_links)
        sections == su_sections_of(p)
    IN  [sections              |-> sections,
         total_score           |-> round(su_total_score_x100(sections), 100),
         overall_score_average |-> su_overall_avg(sections),
         overall_grade         |-> su_get_grade_tag(su_overall_avg(sections) * ScoreScale),
         suggestions           |-> su_suggestions_of(p)]

-----------------------------------------------------------------------------
(* ats_resume_scoring: the 15-point rubric (utils.py 434-479; score_utils.py *)
(* 268-303 repeats the same statements)                                      *)

\* metrics.get(key, default)
get(metrics, key, default) == IF key \in DOMAIN metrics THEN metrics[key] ELSE default

\* the float n / d
ratio(n, d) == [n |-> n, d |-> d]

\* r >= a / b and r <= a / b, for b > 0
ge(r, a, b) == r.n * b >= a * r.d

le(r, a, b) == r.n * b <= a * r.d

MAX_ATS == 15

\* 1) Layout & structure
pts_layout(metrics) ==
    (IF get(metrics, "sections_present", FALSE) THEN 1 ELSE 0)
    + (IF get(metrics, "single_column", FALSE) THEN 1 ELSE 0)
    + (IF get(metrics, "text_extractable", FALSE) THEN 1 ELSE 0)

\* 2) Action verbs & quantified
pts_actions(metrics) ==
    LET av == get(metrics, "action_verbs_per_bullet", ratio(0, 1))
        qr == get(metrics, "quantified_bullets_ratio", ratio(0, 1))
    IN  (IF ge(av, 8, 10) THEN 2 ELSE IF ge(av, 5, 10) THEN 1 ELSE 0)
        + (IF ge(qr, 6, 10) THEN 2 ELSE IF ge(qr, 3, 10) THEN 1 ELSE 0)

\* pts_keywords with the top threshold exclusive (kmr > 0.75)
pts_keywords_exclusive(metrics) ==
    LET kmr == get(metrics, "keyword_match_rate", ratio(0, 1))
    IN  IF ~le(kmr, 75, 100) THEN 3
        ELSE IF ge(kmr, 5, 10) THEN 2
        ELSE IF ge(kmr, 3, 10) THEN 1
        ELSE 0

\* 3) Keyword alignment
pts_keywords(metrics) ==
    LET kmr == get(metrics, "keyword_match_rate", ratio(0, 1))
    IN  IF ge(kmr, 75, 100) THEN 3
        ELSE IF ge(kmr, 5, 10) THEN 2
        ELSE IF ge(kmr, 3, 10) THEN 1
        ELSE 0

\* 4) Brevity
pts_brev(metrics) ==
    LET pages == get(metrics, "pages", 2)
        avg_bullets == get(metrics, "avg_bullets_per_job", ratio(6, 1))
    IN  (IF pages <= 2 THEN 1 ELSE 0) + (IF le(avg_bullets, 7, 1) THEN 1 ELSE 0)

\* 5) Minimal jargon / repetition
pts_clean(metrics) ==
    LET rep == get(metrics, "repetition_rate", ratio(15, 100))
        jar == get(metrics, "jargon_rate", ratio(2, 10))
        usk == get(metrics, "unique_skills_count", 8)
    IN  (IF le(rep, 10, 100) THEN 1 ELSE 0)
        + (IF le(jar, 15, 100) THEN 1 ELSE 0)
        + (IF usk >= 8 THEN 1 ELSE 0)

\* one entry of b["items"]
item(name, earned, max) == [name |-> name, earned |-> earned, max |-> max]

\* b["items"], in the order appended
rubric_items(metrics) ==
    <<item("ATS-friendly layout & structure", pts_layout(metrics), 3),
      item("Action verbs & quantified results", pts_actions(metrics), 4),
      item("Job-relevant keyword alignment", pts_keywords(metrics), 3),
      item("Brevity & conciseness", pts_brev(metrics), 2),
      item("Minimal jargon / repetition", pts_clean(metrics), 3)>>

\* rubric_total with the last "total += pts_clean" missing
rubric_total_without_clean(metrics) ==
    pts_layout(metrics) + pts_actions(metrics) + pts_keywords(metrics) + pts_brev(metrics)

\* total, as accumulated by the five "total += pts_..." statements
rubric_total(metrics) ==
    pts_layout(metrics) + pts_actions(metrics) + pts_keywords(metrics)
    + pts_brev(metrics) + pts_clean(metrics)

\* b["score_100"] = int(round((total / MAX_ATS) * 100))
score_100(total) == round(total * 100, MAX_ATS)

\* ats_resume_scoring(metrics) of utils.py
ats_resume_scoring(metrics) ==
    [items     |-> rubric_items(metrics),
     subtotal  |-> [earned |-> rubric_total(metrics), max |-> MAX_ATS],
     score_100 |-> score_100(rubric_total(metrics))]

\* ats_resume_scoring(metrics) of score_utils.py
su_ats_resume_scoring(metrics) ==
    [items     |-> rubric_items(metrics),
     subtotal  |-> [earned |-> rubric_total(metrics), max |-> MAX_ATS],
     score_100 |-> score_100(rubric_total(metrics))]

-----------------------------------------------------------------------------
(* Strings as sequences of characters.  The metrics derivation searches    *)
(* the resume text with regular expressions that look at single            *)
(* characters, so there a string is the sequence of its characters and     *)
(* spell(s) is that sequence for the literal s.  Two elements stand for    *)
(* more than themselves: "<bullet>" is the one character U+2022, and a     *)
(* page ("<pageA>", "<pageB>") is a run of PageWords distinct lower-case   *)
(* words of PageWordLen letters each, joined by single spaces, none of     *)
(* them a word the source searches for; the words of the two pages differ. *)
(* A page only occurs between two newlines.                                *)

\* words on a filler page, and letters of each of them
PageWords == 500
PageWordLen == 5

Pages == {"<pageA>", "<pageB>"}

\* every string literal of this module that is read character by character
SpellTable ==
    LET spelling == <<
        <<"software engineer", <<"s", "o", "f", "t", "w", "a", "r", "e", " ", "e", "n", "g", "i", "n", "e", "e", "r">>>>,
        <<"python", <<"p", "y", "t", "h", "o", "n">>>>,
        <<"java", <<"j", "a", "v", "a">>>>,
        <<"javascript", <<"j", "a", "v", "a", "s", "c", "r", "i", "p", "t">>>>,
        <<"react", <<"r", "e", "a", "c", "t">>>>,
        <<"node", <<"n", "o", "d", "e">>>>,
        <<"docker", <<"d", "o", "c", "k", "e", "r">>>>,
        <<"kubernetes", <<"k", "u", "b", "e", "r", "n", "e", "t", "e", "s">>>>,
        <<"microservices", <<"m", "i", "c", "r", "o", "s", "e", "r", "v", "i", "c", "e", "s">>>>,
        <<"rest", <<"r", "e", "s", "t">>>>,
        <<"graphql", <<"g", "r", "a", "p", "h", "q", "l">>>>,
        <<"aws", <<"a", "w", "s">>>>,
        <<"gcp", <<"g", "c", "p">>>>,
        <<"ci/cd", <<"c", "i", "/", "c", "d">>>>,
        <<"unit testing", <<"u", "n", "i", "t", " ", "t", "e", "s", "t", "i", "n", "g">>>>,
        <<"data scientist", <<"d", "a", "t", "a", " ", "s", "c", "i", "e", "n", "t", "i", "s", "t">>>>,
        <<"pandas", <<"p", "a", "n", "d", "a", "s">>>>,
        <<"numpy", <<"n", "u", "m", "p", "y">>>>,
        <<"sklearn", <<"s", "k", "l", "e", "a", "r", "n">>>>,
        <<"tensorflow", <<"t", "e", "n", "s", "o", "r", "f", "l", "o", "w">>>>,
        <<"pytorch", <<"p", "y", "t", "o", "r", "c", "h">>>>,
        <<"nlp", <<"n", "l", "p">>>>,
        <<"cv", <<"c", "v">>>>,
        <<"statistics", <<"s", "t", "a", "t", "i", "s", "t", "i", "c", "s">>>>,
        <<"sql", <<"s", "q", "l">>>>,
        <<"experiment", <<"e", "x", "p", "e", "r", "i", "m", "e", "n", "t">>>>,
        <<"a/b testing", <<"a", "/", "b", " ", "t", "e", "s", "t", "i", "n", "g">>>>,
        <<"data visualization", <<"d", "a", "t", "a", " ", "v", "i", "s", "u", "a", "l", "i", "z", "a", "t", "i", "o", "n">>>>,
        <<"devops engineer", <<"d", "e", "v", "o", "p", "s", " ", "e", "n", "g", "i", "n", "e", "e", "r">>>>,
        <<"terraform", <<"t", "e", "r", "r", "a", "f", "o", "r", "m">>>>,
        <<"ansible", <<"a", "n", "s", "i", "b", "l", "e">>>>,
        <<"azure", <<"a", "z", "u", "r", "e">>>>,
        <<"monitoring", <<"m", "o", "n", "i", "t", "o", "r", "i", "n", "g">>>>,
        <<"prometheus", <<"p", "r", "o", "m", "e", "t", "h", "e", "u", "s">>>>,
        <<"grafana", <<"g", "r", "a", "f", "a", "n", "a">>>>,
        <<"helm", <<"h", "e", "l", "m">>>>,
        <<"sre", <<"s", "r", "e">>>>,
        <<"web developer", <<"w", "e", "b", " ", "d", "e", "v", "e", "l", "o", "p", "e", "r">>>>,
        <<"html", <<"h", "t", "m", "l">>>>,
        <<"css", <<"c", "s", "s">>>>,
        <<"next.js", <<"n", "e", "x", "t", ".", "j", "s">>>>,
        <<"vue", <<"v", "u", "e">>>>,
        <<"express", <<"e", "x", "p", "r", "e", "s", "s">>>>,
        <<"responsive", <<"r", "e", "s", "p", "o", "n", "s", "i", "v", "e">>>>,
        <<"seo", <<"s", "e", "o">>>>,
        <<"mobile app developer", <<"m", "o", "b", "i", "l", "e", " ", "a", "p", "p", " ", "d", "e", "v", "e", "l", "o", "p", "e", "r">>>>,
        <<"android", <<"a", "n", "d", "r", "o", "i", "d">>>>,
        <<"ios", <<"i", "o", "s">>>>,
        <<"kotlin", <<"k", "o", "t", "l", "i", "n">>>>,
        <<"swift", <<"s", "w", "i", "f", "t">>>>,
        <<"flutter", <<"f", "l", "u", "t", "t", "e", "r">>>>,
        <<"react native", <<"r", "e", "a", "c", "t", " ", "n", "a", "t", "i", "v", "e">>>>,
        <<"firebase", <<"f", "i", "r", "e", "b", "a", "s", "e">>>>,
        <<"push notifications", <<"p", "u", "s", "h", " ", "n", "o", "t", "i", "f", "i", "c", "a", "t", "i", "o", "n", "s">>>>,
        <<"play store", <<"p", "l", "a", "y", " ", "s", "t", "o", "r", "e">>>>,
        <<"app store", <<"a", "p", "p", " ", "s", "t", "o", "r", "e">>>>,
        <<"human resources", <<"h", "u", "m", "a", "n", " ", "r", "e", "s", "o", "u", "r", "c", "e", "s">>>>,
        <<"recruitment", <<"r", "e", "c", "r", "u", "i", "t", "m", "e", "n", "t">>>>,
        <<"onboarding", <<"o", "n", "b", "o", "a", "r", "d", "i", "n", "g">>>>,
        <<"payroll", <<"p", "a", "y", "r", "o", "l", "l">>>>,
        <<"employee engagement", <<"e", "m", "p", "l", "o", "y", "e", "e", " ", "e", "n", "g", "a", "g", "e", "m", "e", "n", "t">>>>,
        <<"hrms", <<"h", "r", "m", "s">>>>,
        <<"policy", <<"p", "o", "l", "i", "c", "y">>>>,
        <<"compliance", <<"c", "o", "m", "p", "l", "i", "a", "n", "c", "e">>>>,
        <<"talent acquisition", <<"t", "a", "l", "e", "n", "t", " ", "a", "c", "q", "u", "i", "s", "i", "t", "i", "o", "n">>>>,
        <<"grievance", <<"g", "r", "i", "e", "v", "a", "n", "c", "e">>>>,
        <<"training", <<"t", "r", "a", "i", "n", "i", "n", "g">>>>,
        <<"marketing", <<"m", "a", "r", "k", "e", "t", "i", "n", "g">>>>,
        <<"sem", <<"s", "e", "m">>>>,
        <<"campaign", <<"c", "a", "m", "p", "a", "i", "g", "n">>>>,
        <<"content", <<"c", "o", "n", "t", "e", "n", "t">>>>,
        <<"email marketing", <<"e", "m", "a", "i", "l", " ", "m", "a", "r", "k", "e", "t", "i", "n", "g">>>>,
        <<"social media", <<"s", "o", "c", "i", "a", "l", " ", "m", "e", "d", "i", "a">>>>,
        <<"analytics", <<"a", "n", "a", "l", "y", "t", "i", "c", "s">>>>,
        <<"branding", <<"b", "r", "a", "n", "d", "i", "n", "g">>>>,
        <<"roi", <<"r", "o", "i">>>>,
        <<"conversion", <<"c", "o", "n", "v", "e", "r", "s", "i", "o", "n">>>>,
        <<"google ads", <<"g", "o", "o", "g", "l", "e", " ", "a", "d", "s">>>>,
        <<"sales", <<"s", "a", "l", "e", "s">>>>,
        <<"crm", <<"c", "r", "m">>>>,
        <<"pipeline", <<"p", "i", "p", "e", "l", "i", "n", "e">>>>,
        <<"lead generation", <<"l", "e", "a", "d", " ", "g", "e", "n", "e", "r", "a", "t", "i", "o", "n">>>>,
        <<"negotiation", <<"n", "e", "g", "o", "t", "i", "a", "t", "i", "o", "n">>>>,
        <<"quota", <<"q", "u", "o", "t", "a">>>>,
        <<"prospecting", <<"p", "r", "o", "s", "p", "e", "c", "t", "i", "n", "g">>>>,
        <<"closing", <<"c", "l", "o", "s", "i", "n", "g">>>>,
        <<"upsell", <<"u", "p", "s", "e", "l", "l">>>>,
        <<"cross-sell", <<"c", "r", "o", "s", "s", "-", "s", "e", "l", "l">>>>,
        <<"demo", <<"d", "e", "m", "o">>>>,
        <<"finance", <<"f", "i", "n", "a", "n", "c", "e">>>>,
        <<"budgeting", <<"b", "u", "d", "g", "e", "t", "i", "n", "g">>>>,
        <<"forecasting", <<"f", "o", "r", "e", "c", "a", "s", "t", "i", "n", "g">>>>,
        <<"reconciliation", <<"r", "e", "c", "o", "n", "c", "i", "l", "i", "a", "t", "i", "o", "n">>>>,
        <<"audit", <<"a", "u", "d", "i", "t">>>>,
        <<"financial analysis", <<"f", "i", "n", "a", "n", "c", "i", "a", "l", " ", "a", "n", "a", "l", "y", "s", "i", "s">>>>,
        <<"p&l", <<"p", "&", "l">>>>,
        <<"variance", <<"v", "a", "r", "i", "a", "n", "c", "e">>>>,
        <<"sap", <<"s", "a", "p">>>>,
        <<"tally", <<"t", "a", "l", "l", "y">>>>,
        <<"excel", <<"e", "x", "c", "e", "l">>>>,
        <<"customer service", <<"c", "u", "s", "t", "o", "m", "e", "r", " ", "s", "e", "r", "v", "i", "c", "e">>>>,
        <<"zendesk", <<"z", "e", "n", "d", "e", "s", "k">>>>,
        <<"freshdesk", <<"f", "r", "e", "s", "h", "d", "e", "s", "k">>>>,
        <<"sla", <<"s", "l", "a">>>>,
        <<"csat", <<"c", "s", "a", "t">>>>,
        <<"ticketing", <<"t", "i", "c", "k", "e", "t", "i", "n", "g">>>>,
        <<"call handling", <<"c", "a", "l", "l", " ", "h", "a", "n", "d", "l", "i", "n", "g">>>>,
        <<"escalation", <<"e", "s", "c", "a", "l", "a", "t", "i", "o", "n">>>>,
        <<"knowledge base", <<"k", "n", "o", "w", "l", "e", "d", "g", "e", " ", "b", "a", "s", "e">>>>,
        <<"communication", <<"c", "o", "m", "m", "u", "n", "i", "c", "a", "t", "i", "o", "n">>>>,
        <<"experience", <<"e", "x", "p", "e", "r", "i", "e", "n", "c", "e">>>>,
        <<"work history", <<"w", "o", "r", "k", " ", "h", "i", "s", "t", "o", "r", "y">>>>,
        <<"education", <<"e", "d", "u", "c", "a", "t", "i", "o", "n">>>>,
        <<"skills", <<"s", "k", "i", "l", "l", "s">>>>,
        <<"responsible for", <<"r", "e", "s", "p", "o", "n", "s", "i", "b", "l", "e", " ", "f", "o", "r">>>>,
        <<"synergy", <<"s", "y", "n", "e", "r", "g", "y">>>>,
        <<"leverage", <<"l", "e", "v", "e", "r", "a", "g", "e">>>>,
        <<"company", <<"c", "o", "m", "p", "a", "n", "y">>>>,
        <<"employer", <<"e", "m", "p", "l", "o", "y", "e", "r">>>>,
        <<"led", <<"l", "e", "d">>>>,
        <<"built", <<"b", "u", "i", "l", "t">>>>,
        <<"created", <<"c", "r", "e", "a", "t", "e", "d">>>>,
        <<"designed", <<"d", "e", "s", "i", "g", "n", "e", "d">>>>,
        <<"implemented", <<"i", "m", "p", "l", "e", "m", "e", "n", "t", "e", "d">>>>,
        <<"developed", <<"d", "e", "v", "e", "l", "o", "p", "e", "d">>>>,
        <<"optimized", <<"o", "p", "t", "i", "m", "i", "z", "e", "d">>>>,
        <<"increased", <<"i", "n", "c", "r", "e", "a", "s", "e", "d">>>>,
        <<"reduced", <<"r", "e", "d", "u", "c", "e", "d">>>>,
        <<"launched", <<"l", "a", "u", "n", "c", "h", "e", "d">>>>,
        <<"migrated", <<"m", "i", "g", "r", "a", "t", "e", "d">>>>,
        <<"improved", <<"i", "m", "p", "r", "o", "v", "e", "d">>>>,
        <<"delivered", <<"d", "e", "l", "i", "v", "e", "r", "e", "d">>>>,
        <<"k", <<"k">>>>,
        <<"m", <<"m">>>>,
        <<"bn", <<"b", "n">>>>,
        <<"\n- Led ", <<"\n", "-", " ", "L", "e", "d", " ">>>>,
        <<"\n<bullet> built 40%", <<"\n", "<bullet>", " ", "b", "u", "i", "l", "t", " ", "4", "0", "%">>>>,
        <<"\n1. ", <<"\n", "1", ".", " ">>>>,
        <<"python, docker", <<"p", "y", "t", "h", "o", "n", ",", " ", "d", "o", "c", "k", "e", "r">>>>,
        <<"JavaScript", <<"J", "a", "v", "a", "S", "c", "r", "i", "p", "t">>>>,
        <<"unit\n testing", <<"u", "n", "i", "t", "\n", " ", "t", "e", "s", "t", "i", "n", "g">>>>,
        <<"Experience Education Skills", <<"E", "x", "p", "e", "r", "i", "e", "n", "c", "e", " ", "E", "d", "u", "c", "a", "t", "i", "o", "n", " ", "S", "k", "i", "l", "l", "s">>>>,
        <<"responsible for leverage", <<"r", "e", "s", "p", "o", "n", "s", "i", "b", "l", "e", " ", "f", "o", "r", " ", "l", "e", "v", "e", "r", "a", "g", "e">>>>,
        <<"\n<pageA>\n", <<"\n", "<pageA>", "\n">>>>,
        <<"\n<pageB>\n", <<"\n", "<pageB>", "\n">>>>,
        <<" ", <<" ">>>>,
        <<"\n-\n-\n-\n-\n-\n-\n-\n-\n-\n-\n-\n-\n-", <<"\n", "-", "\n", "-", "\n", "-", "\n", "-", "\n", "-", "\n", "-", "\n", "-", "\n", "-", "\n", "-", "\n", "-", "\n", "-", "\n", "-", "\n", "-">>>>,
        <<"Led", <<"L", "e", "d">>>>,
        <<"Software Engineer", <<"S", "o", "f", "t", "w", "a", "r", "e", " ", "E", "n", "g", "i", "n", "e", "e", "r">>>>,
        <<"Sales and Marketing", <<"S", "a", "l", "e", "s", " ", "a", "n", "d", " ", "M", "a", "r", "k", "e", "t", "i", "n", "g">>>>,
        <<"Web Developer", <<"W", "e", "b", " ", "D", "e", "v", "e", "l", "o", "p", "e", "r">>>>,
        <<"Pilot", <<"P", "i", "l", "o", "t">>>>,
        <<"http", <<"h", "t", "t", "p">>>>,
        <<"s", <<"s">>>>,
        <<"://", <<":", "/", "/">>>>,
        <<"github.com", <<"g", "i", "t", "h", "u", "b", ".", "c", "o", "m">>>>,
        <<"linkedin.com", <<"l", "i", "n", "k", "e", "d", "i", "n", ".", "c", "o", "m">>>>,
        <<"portfolio", <<"p", "o", "r", "t", "f", "o", "l", "i", "o">>>>,
        <<"netlify", <<"n", "e", "t", "l", "i", "f", "y">>>>,
        <<"vercel", <<"v", "e", "r", "c", "e", "l">>>>,
        <<".me", <<".", "m", "e">>>>,
        <<".io", <<".", "i", "o">>>>,
        <<".dev", <<".", "d", "e", "v">>>>,
        <<".app", <<".", "a", "p", "p">>>>,
        <<"mailto:", <<"m", "a", "i", "l", "t", "o", ":">>>>,
        <<"linkedin", <<"l", "i", "n", "k", "e", "d", "i", "n">>>>,
        <<"<a href=\"", <<"<", "a", " ", "h", "r", "e", "f", "=", "\"">>>>,
        <<"https://github.com/alice ", <<"h", "t", "t", "p", "s", ":", "/", "/", "g", "i", "t", "h", "u", "b", ".", "c", "o", "m", "/", "a", "l", "i", "c", "e", " ">>>>,
        <<"http://bob.dev ", <<"h", "t", "t", "p", ":", "/", "/", "b", "o", "b", ".", "d", "e", "v", " ">>>>,
        <<"bob@github.com ", <<"b", "o", "b", "@", "g", "i", "t", "h", "u", "b", ".", "c", "o", "m", " ">>>>,
        <<"carol@mail.org ", <<"c", "a", "r", "o", "l", "@", "m", "a", "i", "l", ".", "o", "r", "g", " ">>>>,
        <<"<a href=\"/portfolio\">site</a> ", <<"<", "a", " ", "h", "r", "e", "f", "=", "\"", "/", "p", "o", "r", "t", "f", "o", "l", "i", "o", "\"", ">", "s", "i", "t", "e", "<", "/", "a", ">", " ">>>>,
        <<"<a href=\"https://github.com/alice\">me</a> ", <<"<", "a", " ", "h", "r", "e", "f", "=", "\"", "h", "t", "t", "p", "s", ":", "/", "/", "g", "i", "t", "h", "u", "b", ".", "c", "o", "m", "/", "a", "l", "i", "c", "e", "\"", ">", "m", "e", "<", "/", "a", ">", " ">>>>,
        <<"LinkedIn ", <<"L", "i", "n", "k", "e", "d", "I", "n", " ">>>>,
        <<"https://", <<"h", "t", "t", "p", "s", ":", "/", "/">>>>,
        <<"GitHub", <<"G", "i", "t", "H", "u", "b">>>>,
        <<"LeetCode", <<"L", "e", "e", "t", "C", "o", "d", "e">>>>,
        <<"LinkedIn", <<"L", "i", "n", "k", "e", "d", "I", "n">>>>,
        <<".com", <<".", "c", "o", "m">>>>,
        <<"/in/", <<"/", "i", "n", "/">>>>,
        <<"Certified", <<"C", "e", "r", "t", "i", "f", "i", "e", "d">>>>,
        <<"\nExperience Education Skills\n- Led 40% on android ios kotlin swift flutter firebase play store app store\n", <<"\n", "E", "x", "p", "e", "r", "i", "e", "n", "c", "e", " ", "E", "d", "u", "c", "a", "t", "i", "o", "n", " ", "S", "k", "i", "l", "l", "s", "\n", "-", " ", "L", "e", "d", " ", "4", "0", "%", " ", "o", "n", " ", "a", "n", "d", "r", "o", "i", "d", " ", "i", "o", "s", " ", "k", "o", "t", "l", "i", "n", " ", "s", "w", "i", "f", "t", " ", "f", "l", "u", "t", "t", "e", "r", " ", "f", "i", "r", "e", "b", "a", "s", "e", " ", "p", "l", "a", "y", " ", "s", "t", "o", "r", "e", " ", "a", "p", "p", " ", "s", "t", "o", "r", "e", "\n">>>>,
        <<" github.com/alice ", <<" ", "g", "i", "t", "h", "u", "b", ".", "c", "o", "m", "/", "a", "l", "i", "c", "e", " ">>>>,
        <<" leetcode.com/u/bob ", <<" ", "l", "e", "e", "t", "c", "o", "d", "e", ".", "c", "o", "m", "/", "u", "/", "b", "o", "b", " ">>>>,
        <<"Data Scientist", <<"D", "a", "t", "a", " ", "S", "c", "i", "e", "n", "t", "i", "s", "t">>>>,
        <<"DevOps Engineer", <<"D", "e", "v", "O", "p", "s", " ", "E", "n", "g", "i", "n", "e", "e", "r">>>>,
        <<"Mobile App Developer", <<"M", "o", "b", "i", "l", "e", " ", "A", "p", "p", " ", "D", "e", "v", "e", "l", "o", "p", "e", "r">>>>,
        <<"github.com/", <<"g", "i", "t", "h", "u", "b", ".", "c", "o", "m", "/">>>>,
        <<"leetcode.com/", <<"l", "e", "e", "t", "c", "o", "d", "e", ".", "c", "o", "m", "/">>>>,
        <<"u/", <<"u", "/">>>>,
        <<"@", <<"@">>>>,
        <<"phone", <<"p", "h", "o", "n", "e">>>>,
        <<"email", <<"e", "m", "a", "i", "l">>>>,
        <<"alice", <<"a", "l", "i", "c", "e">>>>,
        <<"bob", <<"b", "o", "b">>>>,
        <<"in", <<"i", "n">>>>,
        <<"u", <<"u">>>>,
        <<"Applicant Name Not Found", <<"A", "p", "p", "l", "i", "c", "a", "n", "t", " ", "N", "a", "m", "e", " ", "N", "o", "t", " ", "F", "o", "u", "n", "d">>>>,
        <<"Candidate", <<"C", "a", "n", "d", "i", "d", "a", "t", "e">>>>,
        <<" alice ", <<" ", "a", "l", "i", "c", "e", " ">>>>,
        <<"Experience Education Skills\n- Led 5 ios swift kotlin android flutter\n<pageA>\n", <<"E", "x", "p", "e", "r", "i", "e", "n", "c", "e", " ", "E", "d", "u", "c", "a", "t", "i", "o", "n", " ", "S", "k", "i", "l", "l", "s", "\n", "-", " ", "L", "e", "d", " ", "5", " ", "i", "o", "s", " ", "s", "w", "i", "f", "t", " ", "k", "o", "t", "l", "i", "n", " ", "a", "n", "d", "r", "o", "i", "d", " ", "f", "l", "u", "t", "t", "e", "r", "\n", "<pageA>", "\n">>>>,
        <<"N/A", <<"N", "/", "A">>>>,
        <<" A@x.org ", <<" ", "A", "@", "x", ".", "o", "r", "g", " ">>>>,
        <<"a@x.org", <<"a", "@", "x", ".", "o", "r", "g">>>>,
        <<"+1 5", <<"+", "1", " ", "5">>>>,
        <<"15", <<"1", "5">>>>,
        <<"2", <<"2">>>>,
        <<"111111", <<"1", "1", "1", "1", "1", "1">>>>,
        <<"222222", <<"2", "2", "2", "2", "2", "2">>>>,
        <<" 222222 ", <<" ", "2", "2", "2", "2", "2", "2", " ">>>>>>
    IN  [s \in {spelling[i][1] : i \in DOMAIN spelling} |->
            spelling[CHOOSE i \in DOMAIN spelling : spelling[i][1] = s][2]]

\* the characters of the string literal s
spell(s) == SpellTable[s]

UpperCase ==
    <<"A", "B", "C", "D", "E", "F", "G", "H", "I", "J", "K", "L", "M",
      "N", "O", "P", "Q", "R", "S", "T", "U", "V", "W", "X", "Y", "Z">>

LowerCase ==
    <<"a", "b", "c", "d", "e", "f", "g", "h", "i", "j", "k", "l", "m",
      "n", "o", "p", "q", "r", "s", "t", "u", "v", "w", "x", "y", "z">>

Digits == {"0", "1", "2", "3", "4", "5", "6", "7", "8", "9"}

\* \s
is_space(c) == c \in {" ", "\n", "\t"}

\* \d
is_digit(c) == c \in Digits

\* [a-zA-Z]
is_alpha(c) == \E i \in 1..26 : c = UpperCase[i] \/ c = LowerCase[i]

\* \w; a page begins and ends with a letter
is_word_char(c) == is_alpha(c) \/ is_digit(c) \/ c = "_" \/ c \in Pages

\* c.lower()
lower_char(c) ==
    IF \E i \in 1..26 : c = UpperCase[i]
    THEN LowerCase[CHOOSE i \in 1..26 : c = UpperCase[i]]
    ELSE c

\* a capital letter that str.lower() leaves as it is: U+2102, the double-struck
\* capital C (one of the letters of category Lu without a lowercase mapping)
DoubleStruckC == "<U+2102>"

\* c.isupper()
is_upper(c) == (\E i \in 1..26 : c = UpperCase[i]) \/ c = DoubleStruckC

\* s.lower()
str_lower(s) == [i \in 1..Len(s) |-> lower_char(s[i])]

\* len(s)
str_len(s) ==
    LET pages == Cardinality({i \in 1..Len(s) : s[i] \in Pages})
    IN  (Len(s) - pages) + pages * (PageWords * (PageWordLen + 1) - 1)

\* \b at the position before s[p] (p = Len(s) + 1: the end of the string)
word_boundary(s, p) ==
    LET before == p > 1 /\ is_word_char(s[p - 1])
        after  == p <= Len(s) /\ is_word_char(s[p])
    IN  before # after

\* the literal lit occurs in s at position p
at(s, p, lit) ==
    /\ p + Len(lit) - 1 <= Len(s)
    /\ \A k \in 1..Len(lit) : s[p + k - 1] = lit[k]

\* the literal lit occurs in s at position p, under re.I
at_ignoring_case(s, p, lit) ==
    /\ p + Len(lit) - 1 <= Len(s)
    /\ \A k \in 1..Len(lit) : lower_char(s[p + k - 1]) = lower_char(lit[k])

\* max(a, b) of two integers
max(a, b) == IF a >= b THEN a ELSE b

\* the characters of each string of a sequence of string literals
spelled(words) == [i \in 1..Len(words) |-> spell(words[i])]

\* [a-zA-Z0-9\+\#\.\-]
is_token_char(c) == is_alpha(c) \/ is_digit(c) \/ c \in {"+", "#", ".", "-"}

\* [^\s\"]
is_url_char(c) == ~is_space(c) /\ c # "\""

\* [a-zA-Z0-9._%+-]
is_local_char(c) == is_alpha(c) \/ is_digit(c) \/ c \in {".", "_", "%", "+", "-"}

\* [a-zA-Z0-9.-]
is_domain_char(c) == is_alpha(c) \/ is_digit(c) \/ c \in {".", "-"}

\* a character of a double-quoted attribute value
is_value_char(c) == c # "\""

\* membership in a character class, given by its name
in_class(class, c) ==
    CASE class = "space"  -> is_space(c)
      [] class = "digit"  -> is_digit(c)
      [] class = "alpha"  -> is_alpha(c)
      [] class = "token"  -> is_token_char(c)
      [] class = "url"    -> is_url_char(c)
      [] class = "local"  -> is_local_char(c)
      [] class = "domain" -> is_domain_char(c)
      [] OTHER            -> is_value_char(c)

\* the first position from p on whose character is not in the class
\* (Len(s) + 1 if there is none): the end of a greedy class*
skip(s, p, class) ==
    CHOOSE q \in p..(Len(s) + 1) :
        /\ q = Len(s) + 1 \/ ~in_class(class, s[q])
        /\ \A j \in p..(q - 1) : in_class(class, s[j])

-----------------------------------------------------------------------------
(* src/main/utils.py: text normalisation, keyword match rate, the metrics  *)
(* derivation (src/main/score_utils.py 206-266 repeats the same            *)
(* statements)                                                             *)

\* re.sub(r"\s+", " ", s): the first character of a run of whitespace becomes a
\* space and the others of the run are dropped
collapse_spaces(s) ==
    LET dropped == "<dropped>"
        marked == [i \in 1..Len(s) |->
                      IF ~is_space(s[i]) THEN s[i]
                      ELSE IF i > 1 /\ is_space(s[i - 1]) THEN dropped ELSE " "]
    IN  SelectSeq(marked, LAMBDA c : c # dropped)

\* s.strip()
strip(s) ==
    IF \A i \in 1..Len(s) : is_space(s[i]) THEN <<>>
    ELSE LET first == CHOOSE i \in 1..Len(s) :
                          ~is_space(s[i]) /\ \A j \in 1..(i - 1) : is_space(s[j])
             last  == CHOOSE i \in 1..Len(s) :
                          ~is_space(s[i]) /\ \A j \in (i + 1)..Len(s) : is_space(s[j])
         IN  SubSeq(s, first, last)

\* normalize_text without its strip()
normalize_text_unstripped(t) == str_lower(collapse_spaces(or_empty(t)))

\* normalize_text(t)
normalize_text(t) == str_lower(strip(collapse_spaces(or_empty(t))))

\* keyword_match_rate counting only the keywords that occur as whole words
keyword_match_rate_whole_words(text, target_keywords) ==
    IF target_keywords = <<>> THEN ratio(0, 1)
    ELSE LET t    == normalize_text(text)
             hits == Cardinality({i \in 1..Len(target_keywords) :
                         LET kw == str_lower(spell(target_keywords[i]))
                         IN  \E p \in 1..Len(t) :
                                 /\ at(t, p, kw)
                                 /\ word_boundary(t, p)
                                 /\ word_boundary(t, p + Len(kw))})
             len  == Len(target_keywords)
         IN  ratio(hits, IF len > 1 THEN len ELSE 1)

\* keyword_match_rate(text, target_keywords)
keyword_match_rate(text, target_keywords) ==
    IF target_keywords = <<>> THEN ratio(0, 1)
    ELSE LET t    == normalize_text(text)
             hits == Cardinality({i \in 1..Len(target_keywords) :
                         contains(t, str_lower(spell(target_keywords[i])))})
             len  == Len(target_keywords)
         IN  ratio(hits, IF len > 1 THEN len ELSE 1)

\* the keys of ROLE_KEYWORDS, in the order of the dict
role_order ==
    <<"software engineer",
      "data scientist",
      "devops engineer",
      "web developer",
      "mobile app developer",
      "human resources",
      "marketing",
      "sales",
      "finance",
      "customer service">>

\* ROLE_KEYWORDS
ROLE_KEYWORDS ==
    ("software engineer" :>
        <<"python", "java", "javascript", "react", "node", "docker",
          "kubernetes", "microservices", "rest", "graphql", "aws", "gcp",
          "ci/cd", "unit testing">>) @@
    ("data scientist" :>
        <<"python", "pandas", "numpy", "sklearn", "tensorflow",
          "pytorch", "nlp", "cv", "statistics", "sql", "experiment",
          "a/b testing", "data visualization">>) @@
    ("devops engineer" :>
        <<"ci/cd", "docker", "kubernetes", "terraform", "ansible", "aws",
          "gcp", "azure", "monitoring", "prometheus", "grafana", "helm",
          "sre">>) @@
    ("web developer" :>
        <<"html", "css", "javascript", "react", "next.js", "vue", "node",
          "express", "rest", "graphql", "responsive", "seo">>) @@
    ("mobile app developer" :>
        <<"android", "ios", "kotlin", "swift", "flutter", "react native",
          "firebase", "push notifications", "play store", "app store">>) @@
    ("human resources" :>
        <<"recruitment", "onboarding", "payroll", "employee engagement",
          "hrms", "policy", "compliance", "talent acquisition",
          "grievance", "training">>) @@
    ("marketing" :>
        <<"seo", "sem", "campaign", "content", "email marketing",
          "social media", "analytics", "branding", "roi", "conversion",
          "google ads">>) @@
    ("sales" :>
        <<"crm", "pipeline", "lead generation", "negotiation", "quota",
          "prospecting", "closing", "upsell", "cross-sell", "demo">>) @@
    ("finance" :>
        <<"budgeting", "forecasting", "reconciliation", "audit",
          "financial analysis", "p&l", "variance", "sap", "tally",
          "excel">>) @@
    ("customer service" :>
        <<"crm", "zendesk", "freshdesk", "sla", "csat", "ticketing",
          "call handling", "escalation", "knowledge base",
          "communication">>)

\* ROLE_KEYWORDS.get(base_role, [])
keywords_of(base_role) ==
    IF base_role = None THEN <<>> ELSE ROLE_KEYWORDS[base_role]

\* the last catalog title contained in the role title, not the first
base_role_of_last(role_title) ==
    LET last_of(found) ==
            IF found = {} THEN None
            ELSE role_order[CHOOSE i \in found : \A j \in found : i >= j]
    IN  last_of({i \in 1..Len(role_order) :
                    contains(str_lower(or_empty(role_title)), spell(role_order[i]))})

\* next((rk for rk in ROLE_KEYWORDS if rk in (role_title or "").lower()), None)
base_role_of(role_title) ==
    LET first_of(found) ==
            IF found = {} THEN None
            ELSE role_order[CHOOSE i \in found : \A j \in found : i <= j]
    IN  first_of({i \in 1..Len(role_order) :
                     contains(str_lower(or_empty(role_title)), spell(role_order[i]))})

action_verbs ==
    <<"led", "built", "created", "designed", "implemented", "developed",
      "optimized", "increased", "reduced", "launched", "migrated", "improved",
      "delivered">>

\* (^|\n|•|\-)\s*(v)\b under re.I, for a match that starts at p
action_verb_end(s, p, v) ==
    LET verb_at(r) ==
            IF at_ignoring_case(s, r, v) /\ word_boundary(s, r + Len(v))
            THEN r + Len(v) ELSE 0
        verb_after(q) == verb_at(skip(s, q, "space"))
        or_marked(anchored) ==
            IF anchored # 0 THEN anchored
            ELSE IF p <= Len(s) /\ s[p] \in {"\n", "<bullet>", "-"}
            THEN verb_after(p + 1) ELSE 0
    IN  or_marked(IF p = 1 THEN verb_after(1) ELSE 0)

\* (\n•|\n-|\n\d+\.) for a match that starts at p
bullet_end(s, p) ==
    LET numbered(d) == IF d > p + 1 /\ d <= Len(s) /\ s[d] = "." THEN d + 1 ELSE 0
    IN  IF ~(p + 1 <= Len(s) /\ s[p] = "\n") THEN 0
        ELSE IF s[p + 1] \in {"<bullet>", "-"} THEN p + 2
        ELSE numbered(skip(s, p + 1, "digit"))

magnitudes == <<"k", "m", "bn">>

\* \b\d+(\.\d+)?%?|\b(k|m|bn)\b under re.I, for a match that starts at p
quantity_end(s, p) ==
    LET percent(f) == IF f <= Len(s) /\ s[f] = "%" THEN f + 1 ELSE f
        fraction(d) ==
            IF d + 1 <= Len(s) /\ s[d] = "." /\ is_digit(s[d + 1])
            THEN percent(skip(s, d + 1, "digit")) ELSE percent(d)
        first_of(words, fits) ==
            IF fits = {} THEN 0
            ELSE p + Len(words[CHOOSE i \in fits : \A j \in fits : i <= j])
        magnitude(words) ==
            first_of(words, {i \in 1..Len(words) :
                                /\ at_ignoring_case(s, p, words[i])
                                /\ word_boundary(s, p + Len(words[i]))})
    IN  IF p > Len(s) \/ ~word_boundary(s, p) THEN 0
        ELSE IF is_digit(s[p]) THEN fraction(skip(s, p, "digit"))
        ELSE magnitude(spelled(magnitudes))

employer_words == <<"company", "employer", "experience">>

\* \b(company|employer|experience)\b for a match that starts at p
employer_end(t, p) ==
    LET first_of(words, fits) ==
            IF fits = {} THEN 0
            ELSE p + Len(words[CHOOSE i \in fits : \A j \in fits : i <= j])
        word(words) ==
            first_of(words, {i \in 1..Len(words) :
                                /\ at(t, p, words[i])
                                /\ word_boundary(t, p + Len(words[i]))})
    IN  IF p > Len(t) \/ ~word_boundary(t, p) THEN 0
        ELSE word(spelled(employer_words))

\* the end of the match of a pattern of derive_resume_metrics that starts
\* at p (the position after its last character), or 0 if none starts there
match_end(pattern, s, p) ==
    CASE pattern = "bullet"   -> bullet_end(s, p)
      [] pattern = "quantity" -> quantity_end(s, p)
      [] pattern = "employer" -> employer_end(s, p)
      [] OTHER                -> action_verb_end(s, p, spell(pattern))

RECURSIVE count_from(_, _, _)
\* the matches re.findall finds from position p on: the search resumes where
\* the last match ended
count_from(pattern, s, p) ==
    LET resume(q, e) == 1 + count_from(pattern, s, IF e > q THEN e ELSE q + 1)
        from(q) == resume(q, match_end(pattern, s, q))
        leftmost(starts) ==
            IF starts = {} THEN 0
            ELSE from(CHOOSE q \in starts : \A r \in starts : q <= r)
    IN  leftmost({q \in p..(Len(s) + 1) : match_end(pattern, s, q) # 0})

\* len(re.findall(pattern, s))
count_matches(pattern, s) == count_from(pattern, s, 1)

\* sum(len(re.findall(..., resume_text, flags=re.I)) for v in action_verbs)
action_verb_hits(s) ==
    SumSeq([i \in 1..Len(action_verbs) |->
               count_matches(action_verbs[i], s)])

\* max(1, len(re.findall(r"(\n•|\n-|\n\d+\.)", resume_text)))
bullets_of(s) == max(1, count_matches("bullet", s))

RECURSIVE tokens_from(_, _)
\* set(re.findall(r"[a-zA-Z][a-zA-Z0-9\+\#\.\-]{1,20}", s)) from position p
\* on, the words of the pages left out
tokens_from(s, p) ==
    LET token(q, e) ==
            IF e > q + 1 THEN {SubSeq(s, q, e - 1)} \cup tokens_from(s, e)
            ELSE tokens_from(s, q + 1)
        at_most_21(q, run) == token(q, IF run - (q + 1) > 20 THEN q + 21 ELSE run)
        from(q) == at_most_21(q, skip(s, q + 1, "token"))
        leftmost(starts) ==
            IF starts = {} THEN {}
            ELSE from(CHOOSE q \in starts : \A r \in starts : q <= r)
    IN  leftmost({q \in p..Len(s) : is_alpha(s[q])})

\* len(set(re.findall(r"[a-zA-Z][a-zA-Z0-9\+\#\.\-]{1,20}", resume_text)))
distinct_tokens(s) ==
    Cardinality(tokens_from(s, 1))
    + PageWords * Cardinality({c \in Pages : \E i \in 1..Len(s) : s[i] = c})

\* the skills count without its upper limit
clamp_skills_unbounded(n) == IF n < 0 THEN 0 ELSE n

\* max(0, min(unique_skills_count, 15))
clamp_skills(n) == IF n < 0 THEN 0 ELSE IF n > 15 THEN 15 ELSE n

\* min(limit, n / d) of two integers n >= 0, d > 0
min_ratio(limit, n, d) == IF n > limit * d THEN ratio(limit, 1) ELSE ratio(n, d)

\* what a call that raises an exception leaves to its caller
raised(exception) == [raised |-> exception]

\* derive_resume_metrics(resume_text, role_title); re.findall and len raise
\* TypeError when resume_text is None
derive_resume_metrics(resume_text, role_title) ==
    LET metrics(t, bullets, jobs, pages, kws) ==
            [sections_present |->
                 /\ contains(t, spell("experience")) \/ contains(t, spell("work history"))
                 /\ contains(t, spell("education"))
                 /\ contains(t, spell("skills")),
             single_column    |-> TRUE,
             text_extractable |-> str_len(t) > 0,
             action_verbs_per_bullet  |->
                 min_ratio(1, action_verb_hits(resume_text), bullets),
             quantified_bullets_ratio |->
                 min_ratio(1, count_matches("quantity", resume_text), max(1, bullets)),
             keyword_match_rate |->
                 IF kws # <<>> THEN keyword_match_rate(resume_text, kws) ELSE ratio(0, 1),
             pages |-> max(1, pages),
             avg_bullets_per_job |-> min_ratio(12, bullets, max(1, jobs)),
             repetition_rate |->
                 IF ~contains(t, spell("responsible for"))
                 THEN ratio(8, 100) ELSE ratio(18, 100),
             jargon_rate |->
                 IF ~contains(t, spell("synergy")) /\ ~contains(t, spell("leverage"))
                 THEN ratio(12, 100) ELSE ratio(22, 100),
             unique_skills_count |-> clamp_skills(distinct_tokens(resume_text) \div 50)]
    IN  IF resume_text = NoneText THEN raised("TypeError")
        ELSE metrics(normalize_text(resume_text),
                     bullets_of(resume_text),
                     count_matches("employer", normalize_text(resume_text)),
                     round(str_len(resume_text), 2000),
                     keywords_of(base_role_of(role_title)))

\* derive_resume_metrics(resume_text, role_title) of score_utils.py
su_derive_resume_metrics(resume_text, role_title) ==
    derive_resume_metrics(resume_text, role_title)


-----------------------------------------------------------------------------
(* src/main/utils.py: extract_and_identify_links *)

\* https?://[^\s\"]+ for a match that starts at p
url_end(s, p) ==
    LET run(rest, e) == IF rest = 0 \/ e = rest THEN 0 ELSE e
        path(rest) == run(rest, IF rest = 0 THEN 0 ELSE skip(s, rest, "url"))
        scheme(http, sep) ==
            IF ~at(s, p, http) THEN 0
            ELSE IF at(s, p + 4, <<"s">>) /\ at(s, p + 5, sep) THEN p + 8
            ELSE IF at(s, p + 4, sep) THEN p + 7
            ELSE 0
    IN  path(scheme(spell("http"), spell("://")))

\* [a-zA-Z0-9._%+-]+@[a-zA-Z0-9.-]+\.[a-zA-Z]{2,} for a match that starts at
\* p: the domain ends at the last dot of its run that two letters follow
email_end(s, p) ==
    LET top_level(dots) ==
            IF dots = {} THEN 0
            ELSE skip(s, (CHOOSE d \in dots : \A x \in dots : x <= d) + 1, "alpha")
        domain(a, b) ==
            top_level({d \in (a + 2)..(b - 1) :
                          s[d] = "." /\ skip(s, d + 1, "alpha") >= d + 3})
        local(a) ==
            IF a > Len(s) \/ s[a] # "@" THEN 0
            ELSE domain(a, skip(s, a + 1, "domain"))
    IN  IF ~(p <= Len(s) /\ is_local_char(s[p])) THEN 0
        ELSE local(skip(s, p, "local"))

\* the end of the match of a pattern of extract_and_identify_links that
\* starts at p, or 0
link_match_end(pattern, s, p) ==
    IF pattern = "url" THEN url_end(s, p) ELSE email_end(s, p)

RECURSIVE find_all(_, _, _)
\* re.findall(pattern, s) from position p on: the matched strings, in order
find_all(pattern, s, p) ==
    LET resume(q, e) == <<SubSeq(s, q, e - 1)>> \o find_all(pattern, s, e)
        from(q) == resume(q, link_match_end(pattern, s, q))
        leftmost(starts) ==
            IF starts = {} THEN <<>>
            ELSE from(CHOOSE q \in starts : \A r \in starts : q <= r)
    IN  leftmost({q \in p..Len(s) : link_match_end(pattern, s, q) # 0})

\* re.search(r"portfolio|netlify|vercel|\.me|\.io|\.dev|\.app", u, re.I)
portfolio_hosts ==
    <<"portfolio", "netlify", "vercel", ".me", ".io", ".dev", ".app">>

\* _classify(u)
classify(u) ==
    LET type(hosts) ==
            IF contains(u, hosts[1]) THEN "GitHub"
            ELSE IF contains(u, hosts[2]) THEN "LinkedIn"
            ELSE IF \E i \in 1..Len(portfolio_hosts) :
                        contains(str_lower(u), hosts[3][i]) THEN "Portfolio"
            ELSE IF at(u, 1, hosts[4]) THEN "Email"
            ELSE "Other"
    IN  type(<<spell("github.com"), spell("linkedin.com"),
               spelled(portfolio_hosts), spell("mailto:")>>)

RECURSIVE hrefs_from(_, _)
\* [tag["href"] for tag in soup.find_all("a", href=True)] from position p on,
\* for anchors written <a href="...">
hrefs_from(s, p) ==
    LET value(v, q) ==
            IF q > Len(s) THEN <<>>
            ELSE <<SubSeq(s, v, q - 1)>> \o hrefs_from(s, q + 1)
        from(q, open) == value(q + Len(open), skip(s, q + Len(open), "value"))
        leftmost(starts, open) ==
            IF starts = {} THEN <<>>
            ELSE from(CHOOSE q \in starts : \A r \in starts : q <= r, open)
        anchor(open) == leftmost({q \in p..Len(s) : at(s, q, open)}, open)
    IN  anchor(spell("<a href=\""))

RECURSIVE add_anchors(_, _, _)
\* the loop over the anchors: an href is appended unless it is in existing
add_anchors(links, existing, hrefs) ==
    IF hrefs = <<>> THEN links
    ELSE IF Head(hrefs) \in existing THEN add_anchors(links, existing, Tail(hrefs))
    ELSE add_anchors(Append(links, [url |-> Head(hrefs), type |-> classify(Head(hrefs))]),
                     existing \cup {Head(hrefs)}, Tail(hrefs))

\* extract_and_identify_links(text); the url None is NoneText
extract_and_identify_links(text) ==
    LET inferred(s, links) ==
            IF /\ \E p \in 1..Len(s) : at_ignoring_case(s, p, spell("linkedin"))
               /\ ~\E i \in 1..Len(links) : links[i].type = "LinkedIn"
            THEN Append(links, [url |-> NoneText, type |-> "LinkedIn (Inferred)"])
            ELSE links
        anchors(s, plain) ==
            inferred(s, add_anchors(plain,
                                    {plain[i].url : i \in 1..Len(plain)} \ {<<>>},
                                    hrefs_from(s, 1)))
        plain_links(s, found_urls, found_emails, mailto) ==
            anchors(s, [i \in 1..Len(found_urls) |->
                           [url |-> found_urls[i], type |-> classify(found_urls[i])]]
                       \o [i \in 1..Len(found_emails) |->
                           [url |-> mailto \o found_emails[i], type |-> "Email"]])
    IN  plain_links(or_empty(text), find_all("url", or_empty(text), 1),
                    find_all("email", or_empty(text), 1), spell("mailto:"))

-----------------------------------------------------------------------------
(* src/main/utils.py: profile lookups.  What the remote service does is an *)
(* input of the call: net is the outcome of requests.get, an exception     *)
(* (timeout, connection error) or a response with a status and a body.     *)

\* int(r.json().get(key, 0)): the value, or the exception of r.json() on a
\* body that is not JSON and of int() on a value that is not a number
remote_count(body) ==
    CASE body.kind = "not_json"     -> raised("ValueError")
      [] body.kind = "no_key"       -> [value |-> 0]
      [] body.kind = "not_a_number" -> raised("ValueError")
      [] OTHER                      -> [value |-> body.count]

\* the try block of a lookup: the value it returns, the exception it
\* raises, or neither when the status is not 200
lookup_attempt(net) ==
    IF net.outcome # "response" THEN raised(net.outcome)
    ELSE IF net.status = 200 THEN remote_count(net.body)
    ELSE [none |-> TRUE]

\* get_github_repo_count without the test of the status
get_github_repo_count_any_status(username, net) ==
    IF ~truthy(username) THEN 0
    ELSE LET attempt == IF net.outcome # "response" THEN raised(net.outcome)
                        ELSE remote_count(net.body)
         IN  IF "value" \in DOMAIN attempt THEN attempt.value ELSE 0

\* get_github_repo_count(username): except Exception: pass, then return 0
get_github_repo_count(username, net) ==
    IF ~truthy(username) THEN 0
    ELSE LET attempt == lookup_attempt(net)
         IN  IF "value" \in DOMAIN attempt THEN attempt.value ELSE 0

\* fetch_leetcode_problem_count(username)
fetch_leetcode_problem_count(username, net) ==
    IF ~truthy(username) THEN 0
    ELSE LET attempt == lookup_attempt(net)
         IN  IF "value" \in DOMAIN attempt THEN attempt.value ELSE 0

-----------------------------------------------------------------------------
(* Inputs *)

\* fragments a resume text is made of: every single lexeme, and the profile
\* references resumes carry
Phrases ==
    {<<lex>> : lex \in Vocabulary}
    \cup {<<"GitHub", ".com">>, <<"LeetCode", ".com">>,
          <<"LinkedIn", ".com", "/in/">>,
          <<"https://", "GitHub", ".com">>,
          <<"https://", "LinkedIn", ".com", "/in/">>}

RECURSIVE TextsOf(_)
\* the concatenations of at most n phrases
TextsOf(n) ==
    IF n = 0 THEN {<<>>}
    ELSE LET prev == TextsOf(n - 1)
         IN  prev \cup {t \o p : t \in prev, p \in Phrases}

\* resume_text: a text, or None
Texts == TextsOf(MaxParts) \cup {NoneText}

\* github_username, leetcode_username
Usernames == {None, "", "alice"}

\* extracted_links
LinkLists ==
    {<<>>,
     <<[url |-> "https://linkedin.com/in/bob", type |-> "LinkedIn"]>>,
     <<[url |-> None, type |-> "LinkedIn (Inferred)"]>>}

\* domain of get_cert_suggestions
Domains ==
    {None, "", "analytical", "data", "Data", "data science", "technical", "Technical",
     "software", "engineering", "marketing"}

\* bodies of a response: not JSON, JSON without the key, JSON whose value is
\* not a number, JSON with a count
Bodies ==
    {[kind |-> k, count |-> 0] : k \in {"not_json", "no_key", "not_a_number"}}
    \cup {[kind |-> "count", count |-> n] : n \in {0, 7}}

\* outcomes of requests.get
NetOutcomes ==
    {[outcome |-> e] : e \in {"Timeout", "ConnectionError"}}
    \cup [outcome : {"response"}, status : {200, 404, 500}, body : Bodies]

\* metrics records: every key present, values on both sides of each threshold
FullMetrics ==
    [sections_present : BOOLEAN, single_column : BOOLEAN, text_extractable : BOOLEAN,
     action_verbs_per_bullet : {ratio(49, 100), ratio(1, 2), ratio(4, 5)},
     quantified_bullets_ratio : {ratio(29, 100), ratio(3, 10), ratio(3, 5)},
     keyword_match_rate : {ratio(2, 14), ratio(3, 10), ratio(1, 2), ratio(3, 4)},
     pages : {2, 3},
     avg_bullets_per_job : {ratio(7, 1), ratio(12, 1)},
     repetition_rate : {ratio(8, 100), ratio(10, 100), ratio(18, 100)},
     jargon_rate : {ratio(12, 100), ratio(15, 100), ratio(22, 100)},
     unique_skills_count : {7, 8}]

\* the empty dict, and a dict holding only some keys
PartialMetrics ==
    {[k \in {} |-> 0],
     [pages |-> 3, unique_skills_count |-> 0],
     [sections_present |-> TRUE, keyword_match_rate |-> ratio(1, 1)]}

Metrics == FullMetrics \cup PartialMetrics

\* a resume document is the concatenation of at most MaxDocParts fragments
MaxDocParts == 2

\* fragments that decide the layout metrics: bullets of the three kinds,
\* action verbs with and without a bullet before them, quantities, section
\* headings, repetition and jargon markers, filler pages, blanks, a list of
\* thirteen empty bullets
LayoutPhrases ==
    {spell(p) : p \in
        {"\n- Led ", "\n<bullet> built 40%", "\n1. ", "Experience Education Skills",
         "responsible for leverage", "\n<pageA>\n", "\n<pageB>\n", " ",
         "\n-\n-\n-\n-\n-\n-\n-\n-\n-\n-\n-\n-\n-", "Led"}}

\* fragments that decide the keyword match rate: role keywords, one of them
\* inside a longer word, one across a line break
KeywordPhrases ==
    {spell(p) : p \in {"python, docker", "JavaScript", "unit\n testing", " "}}

RECURSIVE DocTextsOf(_, _)
\* the concatenations of at most n of the fragments
DocTextsOf(fragments, n) ==
    IF n = 0 THEN {<<>>}
    ELSE LET prev == DocTextsOf(fragments, n - 1)
         IN  prev \cup {t \o p : t \in prev, p \in fragments}

\* role_title: None, empty, a catalog title in another case, a title that
\* holds two catalog titles, a title that holds none
RoleTitles ==
    {NoneText, <<>>} \cup
    {spell(r) : r \in {"Software Engineer", "Web Developer", "Sales and Marketing", "Pilot"}}

\* a text with links is the concatenation of at most MaxLinkParts fragments
MaxLinkParts == 2

\* fragments with links: plain URLs, emails (one at a GitHub address), anchors
\* (one to a relative path, one to a URL that also occurs in plain), a
\* LinkedIn mention
LinkPhrases ==
    {spell(p) : p \in
        {"https://github.com/alice ", "http://bob.dev ", "bob@github.com ",
         "carol@mail.org ", "<a href=\"/portfolio\">site</a> ",
         "<a href=\"https://github.com/alice\">me</a> ", "LinkedIn "}}

\* text of extract_and_identify_links: a text with links, or None
LinkTexts == DocTextsOf(LinkPhrases, MaxLinkParts) \cup {NoneText}

-----------------------------------------------------------------------------
(* State machine.  The engine keeps no state between calls, so a behaviour *)
(* is one call: the initial state holds the pending call (fn names the     *)
(* function, args its arguments) and the step runs the function to its     *)
(* return.  ret is what it returned and presence the presence flags the    *)
(* call computed (locals of the scoring function at its return).  heap     *)
(* holds the objects of the process, each at its address <<owner, name>>:  *)
(* owner 0 is the module, whose objects are the static tables.             *)

\* the list get_cert_suggestions of utils.py takes for a domain
cert_list_name(domain) ==
    LET d == lower(IF truthy(domain) THEN domain ELSE "")
    IN  IF d = "analytical" THEN "certificates: analytical"
        ELSE IF d = "technical" THEN "certificates: technical"
        ELSE "certificates: default"

\* the static tables: TECHNICAL_WEIGHTS, ROLE_KEYWORDS and the three
\* certificate lists written in get_cert_suggestions
module_tables ==
    (<<0, "TECHNICAL_WEIGHTS">> :> TECHNICAL_WEIGHTS)
    @@ (<<0, "ROLE_KEYWORDS">> :> ROLE_KEYWORDS)
    @@ (<<0, "certificates: analytical">> :> get_cert_suggestions("analytical"))
    @@ (<<0, "certificates: technical">> :> get_cert_suggestions("technical"))
    @@ (<<0, "certificates: default">> :> get_cert_suggestions(""))

no_flags ==
    [github |-> FALSE, leetcode |-> FALSE, portfolio |-> FALSE,
     linkedin |-> FALSE, cert |-> FALSE]

\* the arguments of get_grade_tag
GradeArgs == [score : 0..(100 * ScoreScale)]

\* the arguments of calculate_dynamic_ats_score
ScoreArgs ==
    [resume_text : Texts, github_username : Usernames,
     leetcode_username : Usernames, extracted_links : LinkLists]

\* the arguments of ats_resume_scoring
RubricArgs == [metrics : Metrics]

\* the arguments of derive_resume_metrics: a document or None as resume_text;
\* the layout documents come with a catalog role title, the keyword documents
\* with every role title
MetricsArgs ==
    [resume_text : DocTextsOf(LayoutPhrases, MaxDocParts) \cup {NoneText},
     role_title  : {spell("Software Engineer")}]
    \cup [resume_text : DocTextsOf(KeywordPhrases, MaxDocParts), role_title : RoleTitles]

\* the arguments of extract_and_identify_links
LinkArgs == [text : LinkTexts]

\* the arguments of get_cert_suggestions
CertArgs == [domain : Domains]

\* the arguments of a profile lookup, and what the network answers
LookupArgs == [username : Usernames, net : NetOutcomes]

Init ==
    /\ pc = "call"
    /\ ret = [none |-> TRUE]
    /\ presence = no_flags
    /\ heap = module_tables
    /\ no_web
    /\ \/ fn \in {"utils.get_grade_tag", "score_utils.get_grade_tag"} /\ args \in GradeArgs
       \/ /\ fn \in {"utils.calculate_dynamic_ats_score",
                     "score_utils.calculate_dynamic_ats_score"}
          /\ args \in ScoreArgs
       \/ /\ fn \in {"utils.ats_resume_scoring", "score_utils.ats_resume_scoring"}
          /\ args \in RubricArgs
       \/ fn = "utils.extract_and_identify_links" /\ args \in LinkArgs
       \/ /\ fn \in {"utils.get_cert_suggestions", "score_utils.get_cert_suggestions"}
          /\ args \in CertArgs
       \/ /\ fn \in {"utils.get_github_repo_count", "utils.fetch_leetcode_problem_count"}
          /\ args \in LookupArgs

GetGradeTag ==
    /\ pc = "call" /\ fn = "utils.get_grade_tag"
    /\ ret' = get_grade_tag(args.score)
    /\ pc' = "return"
    /\ UNCHANGED <<fn, args, presence, heap>>
    /\ UNCHANGED web

SuGetGradeTag ==
    /\ pc = "call" /\ fn = "score_utils.get_grade_tag"
    /\ ret' = su_get_grade_tag(args.score)
    /\ pc' = "return"
    /\ UNCHANGED <<fn, args, presence, heap>>
    /\ UNCHANGED web

CalculateDynamicAtsScore ==
    /\ pc = "call" /\ fn = "utils.calculate_dynamic_ats_score"
    /\ ret' = calculate_dynamic_ats_score(args.resume_text, args.github_username,
                                          args.leetcode_username, args.extracted_links)
    /\ presence' = presence_flags(args.resume_text, args.github_username,
                                  args.leetcode_username)
    /\ pc' = "return"
    /\ UNCHANGED <<fn, args, heap>>
    /\ UNCHANGED web

SuCalculateDynamicAtsScore ==
    /\ pc = "call" /\ fn = "score_utils.calculate_dynamic_ats_score"
    /\ ret' = su_calculate_dynamic_ats_score(args.resume_text, args.github_username,
                                             args.leetcode_username, args.extracted_links)
    /\ presence' = su_presence_flags(args.resume_text, args.github_username,
                                     args.leetcode_username, args.extracted_links)
    /\ pc' = "return"
    /\ UNCHANGED <<fn, args, heap>>
    /\ UNCHANGED web

AtsResumeScoring ==
    /\ pc = "call" /\ fn = "utils.ats_resume_scoring"
    /\ ret' = ats_resume_scoring(args.metrics)
    /\ pc' = "return"
    /\ UNCHANGED <<fn, args, presence, heap>>
    /\ UNCHANGED web

SuAtsResumeScoring ==
    /\ pc = "call" /\ fn = "score_utils.ats_resume_scoring"
    /\ ret' = su_ats_resume_scoring(args.metrics)
    /\ pc' = "return"
    /\ UNCHANGED <<fn, args, presence, heap>>
    /\ UNCHANGED web

DeriveResumeMetrics ==
    /\ pc = "call" /\ fn = "utils.derive_resume_metrics"
    /\ ret' = derive_resume_metrics(args.resume_text, args.role_title)
    /\ pc' = "return"
    /\ UNCHANGED <<fn, args, presence, heap>>
    /\ UNCHANGED web

SuDeriveResumeMetrics ==
    /\ pc = "call" /\ fn = "score_utils.derive_resume_metrics"
    /\ ret' = su_derive_resume_metrics(args.resume_text, args.role_title)
    /\ pc' = "return"
    /\ UNCHANGED <<fn, args, presence, heap>>
    /\ UNCHANGED web

ExtractAndIdentifyLinks ==
    /\ pc = "call" /\ fn = "utils.extract_and_identify_links"
    /\ ret' = extract_and_identify_links(args.text)
    /\ pc' = "return"
    /\ UNCHANGED <<fn, args, presence, heap>>
    /\ UNCHANGED web

GetCertSuggestions ==
    /\ pc = "call" /\ fn = "utils.get_cert_suggestions"
    /\ ret' = get_cert_suggestions(args.domain)
    /\ pc' = "return"
    /\ UNCHANGED <<fn, args, presence, heap>>
    /\ UNCHANGED web

SuGetCertSuggestions ==
    /\ pc = "call" /\ fn = "score_utils.get_cert_suggestions"
    /\ ret' = su_get_cert_suggestions(args.domain)
    /\ pc' = "return"
    /\ UNCHANGED <<fn, args, presence, heap>>
    /\ UNCHANGED web

GetGithubRepoCount ==
    /\ pc = "call" /\ fn = "utils.get_github_repo_count"
    /\ ret' = get_github_repo_count(args.username, args.net)
    /\ pc' = "return"
    /\ UNCHANGED <<fn, args, presence, heap>>
    /\ UNCHANGED web

FetchLeetcodeProblemCount ==
    /\ pc = "call" /\ fn = "utils.fetch_leetcode_problem_count"
    /\ ret' = fetch_leetcode_problem_count(args.username, args.net)
    /\ pc' = "return"
    /\ UNCHANGED <<fn, args, presence, heap>>
    /\ UNCHANGED web

Next ==
    \/ GetGradeTag
    \/ SuGetGradeTag
    \/ CalculateDynamicAtsScore
    \/ SuCalculateDynamicAtsScore
    \/ AtsResumeScoring
    \/ SuAtsResumeScoring
    \/ ExtractAndIdentifyLinks
    \/ GetCertSuggestions
    \/ SuGetCertSuggestions
    \/ GetGithubRepoCount
    \/ FetchLeetcodeProblemCount

Spec == Init /\ [][Next]_vars

\* the calls of derive_resume_metrics
InitMetrics ==
    /\ pc = "call"
    /\ ret = [none |-> TRUE]
    /\ presence = no_flags
    /\ heap = module_tables
    /\ no_web
    /\ fn \in {"utils.derive_resume_metrics", "score_utils.derive_resume_metrics"}
    /\ args \in MetricsArgs

NextMetrics ==
    \/ DeriveResumeMetrics
    \/ SuDeriveResumeMetrics

SpecMetrics == InitMetrics /\ [][NextMetrics]_vars

-----------------------------------------------------------------------------
(* Concurrent invocations.  NumWorkers threads of the server call the      *)
(* engine at the same time; pc, fn, args and ret are then functions of the *)
(* worker.  A call returns a reference: ret[w].value is the address of the *)
(* returned object and ret[w].holds the addresses of the objects reachable *)
(* from it.  The caller may then change any object it can reach.           *)

NumWorkers == 2

Workers == 1..NumWorkers

\* the calls the workers make
ConcurrentCalls ==
    [fn : {"utils.get_cert_suggestions"}, args : [domain : {None, "technical"}]]
    \cup [fn : {"utils.calculate_dynamic_ats_score"},
          args : [resume_text : {<<>>, <<"Certified">>}, github_username : {"alice"},
                  leetcode_username : {None}, extracted_links : {<<>>}]]
    \cup [fn : {"utils.derive_resume_metrics"},
          args : [resume_text : {spell("Led"), spell("python, docker")},
                  role_title : {spell("Software Engineer")}]]
    \cup [fn : {"utils.ats_resume_scoring"},
          args : [metrics : {derive_resume_metrics(spell("Led"), <<>>),
                             [pages |-> 3, unique_skills_count |-> 0]}]]

\* what the call returns when it runs alone
result_of(f, a) ==
    CASE f = "utils.get_cert_suggestions" -> get_cert_suggestions(a.domain)
      [] f = "utils.calculate_dynamic_ats_score" ->
             calculate_dynamic_ats_score(a.resume_text, a.github_username,
                                         a.leetcode_username, a.extracted_links)
      [] f = "utils.derive_resume_metrics" ->
             derive_resume_metrics(a.resume_text, a.role_title)
      [] OTHER -> ats_resume_scoring(a.metrics)

\* get_cert_suggestions handing out the list of the module itself
cert_list_address_shared(w, name, domain) == <<0, cert_list_name(domain)>>

\* where the list that get_cert_suggestions returns lives: its return
\* statements are list displays, which build a new list at every call
cert_list_address(w, name, domain) == <<w, name>>

\* cert_recs of calculate_dynamic_ats_score: a new empty list, or the list
\* that get_cert_suggestions("technical") returns
recommendations_address(w, report) ==
    IF report.sections["Certifications & Branding"].recommendations = <<>>
    THEN <<w, "recommendations">>
    ELSE cert_list_address(w, "recommendations", "technical")

\* the objects a call of f by worker w leaves on the heap: address -> value
objects_of(w, f, report) ==
    IF f = "utils.get_cert_suggestions"
    THEN cert_list_address(w, "report", args[w].domain) :> report
    ELSE IF f = "utils.calculate_dynamic_ats_score"
    THEN (<<w, "report">> :> report)
         @@ (recommendations_address(w, report) :>
                 report.sections["Certifications & Branding"].recommendations)
    ELSE <<w, "report">> :> report

\* the address of the object the call returns
returned_address(w, f) ==
    IF f = "utils.get_cert_suggestions"
    THEN cert_list_address(w, "report", args[w].domain)
    ELSE <<w, "report">>

\* the report of worker w as its caller reads it now, through the references
report_value(w) ==
    LET root == heap[ret[w].value]
    IN  IF fn[w] = "utils.calculate_dynamic_ats_score"
        THEN LET list == CHOOSE a \in ret[w].holds : a # ret[w].value
             IN  [root EXCEPT !.sections["Certifications & Branding"].recommendations =
                                  heap[list]]
        ELSE root

\* an object after its holder changed it: a list gets one more element, a
\* report, a metrics or a breakdown dict gets another value at one key
changed(f, is_report, object) ==
    IF f = "utils.get_cert_suggestions" \/ ~is_report THEN Append(object, "<changed>")
    ELSE IF f = "utils.calculate_dynamic_ats_score" THEN [object EXCEPT !.total_score = -1]
    ELSE IF f = "utils.derive_resume_metrics" THEN [object EXCEPT !.pages = 0]
    ELSE [object EXCEPT !.score_100 = -1]

InitConcurrent ==
    /\ pc = [w \in Workers |-> "idle"]
    /\ fn = [w \in Workers |-> None]
    /\ args = [w \in Workers |-> [none |-> TRUE]]
    /\ ret = [w \in Workers |-> [none |-> TRUE]]
    /\ presence = no_flags
    /\ heap = module_tables
    /\ no_web

\* a request reaches worker w
Invoke(w) ==
    /\ pc[w] = "idle"
    /\ \E c \in ConcurrentCalls :
          /\ fn' = [fn EXCEPT ![w] = c.fn]
          /\ args' = [args EXCEPT ![w] = c.args]
    /\ pc' = [pc EXCEPT ![w] = "call"]
    /\ UNCHANGED <<ret, presence, heap>>
    /\ UNCHANGED web

\* worker w runs its call to the return
Run(w) ==
    LET Return(objects) ==
            /\ heap' = objects @@ heap
            /\ ret' = [ret EXCEPT ![w] = [value |-> returned_address(w, fn[w]),
                                          holds |-> DOMAIN objects]]
    IN  /\ pc[w] = "call"
        /\ Return(objects_of(w, fn[w], result_of(fn[w], args[w])))
        /\ pc' = [pc EXCEPT ![w] = "return"]
        /\ UNCHANGED <<fn, args, presence>>
        /\ UNCHANGED web

\* the caller of worker w changes an object of the report it got
Mutate(w) ==
    /\ pc[w] = "return"
    /\ \E a \in ret[w].holds :
          heap' = [heap EXCEPT ![a] = changed(fn[w], a = <<w, "report">>, heap[a])]
    /\ pc' = [pc EXCEPT ![w] = "changed"]
    /\ UNCHANGED <<fn, args, ret, presence>>
    /\ UNCHANGED web

\* the request is over: the objects of worker w are dropped
Discard(w) ==
    /\ pc[w] \in {"return", "changed"}
    /\ heap' = [a \in {x \in DOMAIN heap : x[1] # w} |-> heap[a]]
    /\ pc' = [pc EXCEPT ![w] = "idle"]
    /\ fn' = [fn EXCEPT ![w] = None]
    /\ args' = [args EXCEPT ![w] = [none |-> TRUE]]
    /\ ret' = [ret EXCEPT ![w] = [none |-> TRUE]]
    /\ UNCHANGED presence
    /\ UNCHANGED web

NextConcurrent ==
    \E w \in Workers :
        \/ Invoke(w)
        \/ Run(w)
        \/ Mutate(w)
        \/ Discard(w)

SpecConcurrent == InitConcurrent /\ [][NextConcurrent]_vars


-----------------------------------------------------------------------------
(* Two runs side by side.  The same call is made in two runs of the        *)
(* program; each run has its own environment (the clock, the state of the  *)
(* random source, whether the network answers) and its own past (the calls *)
(* made in the process before).  pc, fn, args, ret and env are functions   *)
(* of the run.                                                             *)

Runs == {1, 2}

\* the clock of a run advances at most to MaxClock
MaxClock == 1

\* at most MaxEarlier calls are made in a run before the call under study
MaxEarlier == 1

\* what a run finds around itself when it starts
Environments ==
    [clock : {0}, random : {"seed a", "seed b"}, net : {"up", "down"},
     earlier : {0}]

\* the calls made in both runs
TwoRunCalls ==
    [fn : {"utils.calculate_dynamic_ats_score"},
     args : [resume_text : {NoneText, <<>>, <<"Certified">>,
                            <<"https://", "GitHub", ".com">>},
             github_username : {None, "alice"},
             leetcode_username : {None}, extracted_links : {<<>>}]]
    \cup [fn : {"utils.derive_resume_metrics"},
          args : [resume_text : {spell("Led"), spell("python, docker")},
                  role_title : {spell("Software Engineer")}]]
    \cup [fn : {"utils.ats_resume_scoring"},
          args : [metrics : {derive_resume_metrics(spell("Led"), <<>>),
                             [pages |-> 3, unique_skills_count |-> 0]}]]

\* the engine reading the clock of its environment
engine_result_timed(environment, f, a) ==
    [value |-> result_of(f, a), at |-> environment.clock]

\* the result of the call f(a) made in an environment: the three functions
\* read their arguments and the static tables only (no call of random, time
\* or requests, no module-level assignment), so the environment is not used
engine_result(environment, f, a) == result_of(f, a)

InitTwoRuns ==
    /\ pc = [r \in Runs |-> "call"]
    /\ \E c \in TwoRunCalls :
          /\ fn = [r \in Runs |-> c.fn]
          /\ args = [r \in Runs |-> c.args]
    /\ ret = [r \in Runs |-> [none |-> TRUE]]
    /\ presence = no_flags
    /\ heap = module_tables
    /\ env \in [Runs -> Environments]
    /\ session = <<>>
    /\ cache = <<>>
    /\ registered_users = <<>>
    /\ locals = <<>>
    /\ history = <<>>

\* time passes in run r
Tick(r) ==
    /\ pc[r] = "call"
    /\ env[r].clock < MaxClock
    /\ env' = [env EXCEPT ![r].clock = @ + 1]
    /\ UNCHANGED <<pc, fn, args, ret, presence, heap>>
    /\ UNCHANGED <<session, cache, registered_users, locals, history>>

\* another call is made in run r before the call under study; it returns and
\* its objects are dropped, the static tables are as before
Earlier(r) ==
    /\ pc[r] = "call"
    /\ env[r].earlier < MaxEarlier
    /\ env' = [env EXCEPT ![r].earlier = @ + 1]
    /\ UNCHANGED <<pc, fn, args, ret, presence, heap>>
    /\ UNCHANGED <<session, cache, registered_users, locals, history>>

\* run r makes the call
Call(r) ==
    /\ pc[r] = "call"
    /\ ret' = [ret EXCEPT ![r] = engine_result(env[r], fn[r], args[r])]
    /\ pc' = [pc EXCEPT ![r] = "return"]
    /\ UNCHANGED <<fn, args, presence, heap, web>>

NextTwoRuns ==
    \E r \in Runs :
        \/ Tick(r)
        \/ Earlier(r)
        \/ Call(r)

SpecTwoRuns == InitTwoRuns /\ [][NextTwoRuns]_vars

-----------------------------------------------------------------------------
(* normalize_text called on a text, then called again on its own result.  *)

\* the texts given to normalize_text have at most MaxNormLen characters
MaxNormLen == 3

NormChars == {"A", "b", " ", "\t", "\n", DoubleStruckC}

NormTexts == {NoneText} \cup UNION {[1..n -> NormChars] : n \in 0..MaxNormLen}

InitNormalize ==
    /\ pc = "call"
    /\ fn = "utils.normalize_text"
    /\ args \in [t : NormTexts]
    /\ ret = [none |-> TRUE]
    /\ presence = no_flags
    /\ heap = module_tables
    /\ no_web

\* normalize_text(t)
NormalizeText ==
    /\ pc = "call"
    /\ ret' = normalize_text(args.t)
    /\ pc' = "return"
    /\ UNCHANGED <<fn, args, presence, heap, web>>

\* normalize_text(x) for the x returned by the first call
NormalizeAgain ==
    /\ pc = "return"
    /\ args' = [t |-> ret]
    /\ ret' = normalize_text(ret)
    /\ pc' = "again"
    /\ UNCHANGED <<fn, presence, heap, web>>

NextNormalize ==
    \/ NormalizeText
    \/ NormalizeAgain

SpecNormalize == InitNormalize /\ [][NextNormalize]_vars

-----------------------------------------------------------------------------
(* The views.  A resume text is a sequence of lexemes, as in the presence  *)
(* tests; the functions that read it character by character are given the *)
(* characters of its lexemes.                                              *)

RECURSIVE chars_of(_)
\* the characters of a text of lexemes
chars_of(text) ==
    IF text = <<>> THEN <<>> ELSE spell(Head(text)) \o chars_of(Tail(text))

\* the string of a sequence of characters
str_of(characters) ==
    IF characters = <<>> THEN ""
    ELSE CHOOSE s \in DOMAIN SpellTable : SpellTable[s] = characters

\* [A-Za-z0-9\-]
is_github_name_char(c) == is_alpha(c) \/ is_digit(c) \/ c = "-"

\* [\w\-]
is_leetcode_name_char(c) == is_word_char(c) \/ c = "-"

\* the end of the longest run of name characters of s that begins at p
name_end(s, p, site) ==
    LET in_name(c) == IF site = "github" THEN is_github_name_char(c)
                      ELSE is_leetcode_name_char(c)
    IN  CHOOSE q \in p..(Len(s) + 1) :
            /\ q = Len(s) + 1 \/ ~in_name(s[q])
            /\ \A j \in p..(q - 1) : in_name(s[j])

\* re.search(r"github\.com/([A-Za-z0-9\-]+)", text or ""): group 1 of the
\* leftmost match, or None
extract_github_username(text) ==
    LET group(s, lit) ==
            LET starts == {p \in 1..Len(s) :
                              at(s, p, lit) /\ name_end(s, p + Len(lit), "github") > p + Len(lit)}
                first(ps) == CHOOSE p \in ps : \A q \in ps : p <= q
                name(p) == SubSeq(s, p, name_end(s, p, "github") - 1)
            IN  IF starts = {} THEN NoneText ELSE name(first(starts) + Len(lit))
    IN  group(or_empty(text), spell("github.com/"))

\* re.search(r"leetcode\.com/(?:u/)?([\w\-]+)", text or ""): group 1 of the
\* leftmost match, or None; u/ is taken when a name follows it
extract_leetcode_username(text) ==
    LET group(s, lit, u) ==
            LET named(p) == name_end(s, p, "leetcode") > p
                starts == {p \in 1..Len(s) : at(s, p, lit) /\ named(p + Len(lit))}
                first(ps) == CHOOSE p \in ps : \A q \in ps : p <= q
                name(p) == SubSeq(s, p, name_end(s, p, "leetcode") - 1)
                after(p) == IF at(s, p, u) /\ named(p + Len(u)) THEN p + Len(u) ELSE p
            IN  IF starts = {} THEN NoneText ELSE name(after(first(starts) + Len(lit)))
    IN  group(or_empty(text), spell("leetcode.com/"), spell("u/"))

\* extract_applicant_name(resume_text): the first line that is not blank,
\* stripped
extract_applicant_name(resume_text) ==
    LET line(s, not_found) ==
            LET filled == {p \in 1..Len(s) : ~is_space(s[p])}
                first(ps) == CHOOSE p \in ps : \A q \in ps : p <= q
                stop(p) == CHOOSE q \in p..(Len(s) + 1) :
                               /\ q = Len(s) + 1 \/ s[q] = "\n"
                               /\ \A j \in p..(q - 1) : s[j] # "\n"
                from(p) == strip(SubSeq(s, p, stop(p) - 1))
            IN  IF filled = {} THEN not_found ELSE from(first(filled))
    IN  line(or_empty(resume_text), spell("Applicant Name Not Found"))

\* TECH_ROLE_MAP.get(role_slug, "Software Engineer")
TECH_ROLE_MAP(role_slug) ==
    CASE role_slug = "software_engineer" -> "Software Engineer"
      [] role_slug = "data_scientist"    -> "Data Scientist"
      [] role_slug = "devops_engineer"   -> "DevOps Engineer"
      [] role_slug = "web_developer"     -> "Web Developer"
      [] role_slug = "mobile_developer"  -> "Mobile App Developer"
      [] OTHER                           -> "Software Engineer"

\* the highest score a view displays for the resume rubric
SCORE_CAP == 89

\* the displayed score without the cap
uncapped_score(raw_100) == max(0, raw_100)

\* max(0, min(89, int(raw_100)))
displayed_score(raw_100) == max(0, IF raw_100 <= SCORE_CAP THEN raw_100 ELSE SCORE_CAP)

\* the sections after the view has put its own score into the resume section:
\* grade and sub_criteria are those of the section it replaces
overridden(sections, ats_resume_score) ==
    [sections EXCEPT !["Resume (ATS Score)"] =
        [score |-> ats_resume_score, grade |-> @.grade, sub_criteria |-> @.sub_criteria]]

\* the order in which analyze_resume lists the sections
desired_order ==
    <<"Resume (ATS Score)", "GitHub Profile", "Portfolio Website", "LeetCode/DSA Skills",
      "LinkedIn", "Certifications & Branding">>

\* s[:2]
first_two(s) == SubSeq(s, 1, IF Len(s) < 2 THEN Len(s) ELSE 2)

\* "YES" if b else "NO"
yes_no(b) == IF b THEN "YES" ELSE "NO"

\* x or y, for strings
or_else(x, y) == IF x = "" \/ x = None THEN y ELSE x

\* (request.POST.get(name) or "").strip()
stripped_field(x) == IF x = "" \/ x = None THEN "" ELSE str_of(strip(spell(x)))

\* ats_resume_scoring(derive_resume_metrics(resume_text, role_title))
\* .get("score_100"), for a text of lexemes and a role title
raw_score_100(resume_text, role_title) ==
    ats_resume_scoring(
        derive_resume_metrics(chars_of(resume_text), spell(role_title))).score_100

\* the context analyze_resume stores for a request: resume_text is the text
\* extracted from the uploaded file, the other three are fields of the form
technical_context(resume_text, role_slug, github_field, leetcode_field) ==
    LET context(text, lowered, role_title, github_username, leetcode_username) ==
            LET built(ats_resume_score, ats_result) ==
                    LET sections == overridden(ats_result.sections, ats_resume_score)
                    IN  [result_key |-> <<"technical", role_slug, text, github_username,
                                          leetcode_username>>,
                         applicant_name |-> extract_applicant_name(text),
                         contact_detection |->
                             yes_no(\E s \in {"@", "phone", "email"} : contains(lowered, spell(s))),
                         linkedin_detection |-> yes_no(contains(lowered, spell("linkedin.com"))),
                         github_detection |->
                             yes_no(contains(lowered, spell("github.com")) \/ github_username # ""),
                         ats_score |-> ats_resume_score,
                         overall_score_average |-> ats_result.overall_score_average,
                         overall_grade |-> ats_result.overall_grade,
                         score_breakdown |-> sections,
                         score_breakdown_ordered |->
                             [i \in 1..Len(desired_order) |->
                                 <<desired_order[i], sections[desired_order[i]]>>],
                         pie_chart_image |-> [chart_of |-> all_scores(sections)],
                         missing_certifications |-> [certifications_for |-> role_title],
                         suggestions |-> first_two(ats_result.suggestions),
                         role |-> role_title]
            IN  built(displayed_score(raw_score_100(resume_text, role_title)),
                      calculate_dynamic_ats_score(resume_text, github_username,
                                                  leetcode_username, <<>>))
    IN  context(chars_of(resume_text), str_lower(chars_of(resume_text)),
                TECH_ROLE_MAP(role_slug),
                or_else(stripped_field(github_field),
                        or_else(str_of(or_empty(extract_github_username(chars_of(resume_text)))), "")),
                or_else(stripped_field(leetcode_field),
                        or_else(str_of(or_empty(extract_leetcode_username(chars_of(resume_text)))),
                                "")))

\* a field of the report of ats_scoring_non_tech_v2, whose module is not among
\* the sources: the report of a file is a function of the file
non_tech_report(name, resume_text) ==
    [ats_scoring_non_tech_v2 |-> resume_text, get |-> name]

\* the context analyze_resume_v2 starts from
default_context ==
    [applicant_name |-> spell("N/A"), ats_score |-> 0, overall_score_average |-> 0,
     overall_grade |-> "N/A", score_breakdown |-> <<>>, suggestions |-> <<>>,
     pie_chart_image |-> None, detected_links |-> <<>>, error |-> None,
     contact_detection |-> "NO", github_detection |-> "NO", linkedin_detection |-> "NO"]

\* the context analyze_resume_v2 renders for the text and the links extracted
\* from the uploaded file and the role_title of the form
non_technical_context(resume_text, extracted_links, role_title) ==
    LET context(text, lowered) ==
            [default_context EXCEPT
                !.applicant_name = extract_applicant_name(text),
                !.ats_score = displayed_score(raw_score_100(resume_text, role_title)),
                !.overall_score_average = non_tech_report("overall_score_average", resume_text),
                !.overall_grade = non_tech_report("overall_grade", resume_text),
                !.score_breakdown = non_tech_report("score_breakdown", resume_text),
                !.pie_chart_image = non_tech_report("pie_chart_image", resume_text),
                !.suggestions = non_tech_report("suggestions", resume_text),
                !.detected_links = extracted_links,
                !.contact_detection =
                    yes_no(\E s \in {"@", "phone", "email"} : contains(lowered, spell(s))),
                !.github_detection =
                    yes_no(\/ contains(lowered, spell("github.com"))
                           \/ \E i \in 1..Len(extracted_links) :
                                  contains(spell(extracted_links[i]), spell("github.com"))),
                !.linkedin_detection =
                    yes_no(\/ contains(lowered, spell("linkedin.com"))
                           \/ \E i \in 1..Len(extracted_links) :
                                  contains(spell(extracted_links[i]), spell("linkedin.com")))]
    IN  context(chars_of(resume_text), str_lower(chars_of(resume_text)))

\* os.path.splitext(resume_file.name)[1].lower()
ext_of(file_name) ==
    CASE file_name = "resume.pdf"  -> ".pdf"
      [] file_name = "Resume.DOCX" -> ".docx"
      [] file_name = "resume.doc"  -> ".doc"
      [] OTHER                     -> ".txt"

\* a resume that earns 14 of the 15 points of the rubric for a mobile developer
rich_resume ==
    <<"Experience Education Skills\n- Led 5 ios swift kotlin android flutter\n<pageA>\n">>

\* the texts the extractors return for the uploaded files
ViewTexts ==
    {<<>>, rich_resume,
     <<"https://", "LinkedIn", ".com", "/in/", " leetcode.com/u/bob ">>}

\* the requests sent to analyze_resume
TechnicalRequests ==
    [method : {"POST"}, domain : {"technical"}, resume : {"resume.pdf"},
     resume_text : ViewTexts, tech_role : {"mobile_developer"},
     github_username : {" alice "}, leetcode_username : {None}]
    \cup [method : {"POST"}, domain : {"technical"}, resume : {"Resume.DOCX"},
          resume_text : {<<"Certified", " github.com/alice ">>}, tech_role : {None},
          github_username : {None}, leetcode_username : {""}]
    \cup [method : {"GET", "POST"}, domain : {"technical", "non_technical"},
          resume : {None, "resume.txt"}, resume_text : {<<>>}, tech_role : {None},
          github_username : {None}, leetcode_username : {None}]

\* the requests sent to analyze_resume_v2
NonTechnicalRequests ==
    [method : {"POST"}, resume : {"resume.pdf"}, resume_text : {rich_resume},
     extracted_links : {<<"https://github.com/alice ">>},
     role_title : {"Mobile App Developer"}]
    \cup [method : {"POST"}, resume : {"Resume.DOCX"}, resume_text : {<<"Certified">>},
          extracted_links : {<<>>}, role_title : {None}]
    \cup [method : {"GET", "POST"}, resume : {None, "resume.txt", "resume.doc"},
          resume_text : {<<>>}, extracted_links : {<<>>}, role_title : {None}]

\* request.session.get(key) is not None
stored(key) == key \in DOMAIN session

\* a session that keeps what it already holds under the key
session_set_once(key, value) ==
    [k \in DOMAIN session \cup {key} |->
        IF k = key /\ k \notin DOMAIN session THEN value ELSE session[k]]

\* request.session[key] = value
session_set(key, value) ==
    [k \in DOMAIN session \cup {key} |-> IF k = key THEN value ELSE session[k]]

\* HttpResponse(body, status=status)
response(status, body) == [status |-> status, body |-> body]

\* render(request, template, context)
render(template, context) == [status |-> 200, template |-> template, context |-> context]

\* redirect(name)
redirect(name) == [status |-> 302, location |-> name]

\* the answer of require_POST to another method
not_allowed == [status |-> 405]

\* the roles download_resume_pdf prints with the non-technical template
non_technical_roles ==
    {"Human Resources", "Marketing", "Sales", "Finance", "Customer Service"}

InitViews ==
    /\ pc = "idle"
    /\ fn = "upload_resume"
    /\ args = <<>>
    /\ ret = render("upload_resume.html", <<>>)
    /\ presence = no_flags
    /\ heap = module_tables
    /\ env = <<>>
    /\ session = <<>>
    /\ cache = <<>>
    /\ registered_users = <<>>
    /\ locals = <<>>
    /\ history = [last_analysis |-> <<>>, last_technical |-> <<>>, computing |-> {}]

\* what a view leaves alone besides the session and the record of the past
view_frame == UNCHANGED <<presence, heap, env, cache, registered_users, locals>>

\* a request has been answered by the view
answered(view, request, answer) ==
    /\ pc' = "answered"
    /\ fn' = view
    /\ args' = request
    /\ ret' = answer

\* the scores of a context have been computed by the view
analysed(view, context) ==
    history' = [last_analysis |-> <<context>>,
                last_technical |-> IF view = "analyze_resume" THEN <<context>>
                                   ELSE history.last_technical,
                computing |-> history.computing \cup {view}]

\* analyze_resume(request)
AnalyzeResume ==
    \E request \in TechnicalRequests :
        LET analysis(context) ==
                /\ session' = session_set("resume_context_tech", context)
                /\ analysed("analyze_resume", context)
                /\ answered("analyze_resume", request, redirect("show_report_technical"))
            refused(answer) ==
                /\ answered("analyze_resume", request, answer)
                /\ UNCHANGED <<session, history>>
        IN  /\ IF request.method # "POST" THEN refused(not_allowed)
               ELSE IF request.domain # "technical"
                    THEN refused(response(400, "Please choose the Technical category."))
               ELSE IF request.resume = None
                    THEN refused(response(400, "Resume file is required."))
               ELSE IF ext_of(request.resume) \notin {".pdf", ".docx"}
                    THEN refused(response(400,
                             "Unsupported file format. Please upload a PDF or DOCX."))
               ELSE analysis(technical_context(
                                 request.resume_text,
                                 IF request.tech_role = None THEN "software_engineer"
                                 ELSE request.tech_role,
                                 request.github_username, request.leetcode_username))
            /\ view_frame

\* analyze_resume_v2(request)
AnalyzeResumeV2 ==
    \E request \in NonTechnicalRequests :
        LET shown(context) == answered("analyze_resume_v2", request,
                                       render("score_of_non_tech.html", context))
            analysis(context) == shown(context) /\ analysed("analyze_resume_v2", context)
        IN  /\ IF request.method # "POST"
               THEN answered("analyze_resume_v2", request, not_allowed)
                    /\ UNCHANGED history
               ELSE IF request.resume = None
                    THEN shown(default_context) /\ UNCHANGED history
               ELSE IF ext_of(request.resume) \notin {".pdf", ".docx", ".doc"}
                    THEN /\ shown([default_context EXCEPT !.error =
                                "Unsupported file format. Please upload a PDF, DOCX, or DOC file."])
                         /\ UNCHANGED history
               ELSE IF ext_of(request.resume) = ".doc"
                    THEN answered("analyze_resume_v2", request, raised("NameError"))
                         /\ UNCHANGED history
               ELSE analysis(non_technical_context(
                                 request.resume_text, request.extracted_links,
                                 IF request.role_title = None THEN "human resources"
                                 ELSE request.role_title))
            /\ UNCHANGED session
            /\ view_frame

\* show_report_technical(request)
ShowReportTechnical ==
    /\ IF ~stored("resume_context_tech")
       THEN answered("show_report_technical", <<>>, redirect("upload_page"))
       ELSE answered("show_report_technical", <<>>,
                     render("resume_result.html", session["resume_context_tech"]))
    /\ UNCHANGED <<session, history>>
    /\ view_frame

\* show_report_nontechnical(request)
ShowReportNontechnical ==
    /\ IF ~stored("resume_context_nontech")
       THEN answered("show_report_nontechnical", <<>>, redirect("upload_page"))
       ELSE answered("show_report_nontechnical", <<>>,
                     render("score_of_non_tech.html", session["resume_context_nontech"]))
    /\ UNCHANGED <<session, history>>
    /\ view_frame

\* download_resume_pdf(request); writing the PDF succeeds or raises
DownloadResumePdf ==
    LET pdf(context) ==
            \E written \in BOOLEAN :
                answered("download_resume_pdf", <<>>,
                    IF ~written THEN response(500, "Error generating PDF")
                    ELSE [status |-> 200, content_type |-> "application/pdf",
                          template |-> IF context.role \in non_technical_roles
                                       THEN "score_of_non_tech.html"
                                       ELSE "resume_result.html",
                          context |-> context])
    IN  /\ IF stored("resume_context_tech") THEN pdf(session["resume_context_tech"])
           ELSE IF stored("resume_context_nontech")
                THEN pdf(session["resume_context_nontech"])
           ELSE answered("download_resume_pdf", <<>>,
                         response(404, "No resume analysis found in session."))
        /\ UNCHANGED <<session, history>>
        /\ view_frame

NextViews ==
    \/ AnalyzeResume
    \/ AnalyzeResumeV2
    \/ ShowReportTechnical
    \/ ShowReportNontechnical
    \/ DownloadResumePdf

SpecViews == InitViews /\ [][NextViews]_vars

-----------------------------------------------------------------------------
(* One-time passwords.  Requests are served by MaxInFlight threads of one  *)
(* process; a step of a thread is one access to the cache or to            *)
(* registered_users together with the local computation around it.  pc     *)
(* and locals are functions of the thread.                                 *)

\* requests served at the same time
MaxInFlight == 2

Threads == 1..MaxInFlight

\* OTP_TTL_SECONDS
OTP_TTL_SECONDS == 300

\* the clock advances by TickSeconds at a time, up to MaxNow
TickSeconds == 150

MaxNow == 300

\* at most MaxIssued passwords are issued
MaxIssued == 2

\* random.randint(100000, 999999), formatted
Codes == {"111111", "222222"}

\* request.POST.get(name, ""), for a field that may be missing
posted(request, name) == IF request[name] = None THEN "" ELSE request[name]

\* norm_email(email)
norm_email(email) ==
    IF email = "" \/ email = None THEN "" ELSE str_of(str_lower(strip(spell(email))))

\* norm_mobile(mobile): re.sub(r"\D+", "", (mobile or "").strip())
norm_mobile(mobile) ==
    IF mobile = "" \/ mobile = None THEN ""
    ELSE str_of(SelectSeq(strip(spell(mobile)), is_digit))

\* f"signup_otp:{email}:{mobile}" and f"login_otp:{email}"
cache_key_of(view, email, mobile) ==
    IF view \in {"send_signup_otp", "verify_signup_otp"}
    THEN <<"signup_otp", email, mobile>>
    ELSE <<"login_otp", email>>

\* cache.get(key) at the time now: the value stored under the key while its
\* timeout has not passed, None otherwise
cache_get(key, now) ==
    IF key \in DOMAIN cache /\ now < cache[key].expires THEN cache[key].value ELSE None

\* cache.set(key, value, timeout=timeout) at the time now; issue numbers the
\* passwords in the order they are issued
cache_set(key, value, timeout, now, issue) ==
    [k \in DOMAIN cache \cup {key} |->
        IF k = key THEN [value |-> value, expires |-> now + timeout, issue |-> issue]
        ELSE cache[k]]

\* cache.delete(key)
cache_delete(key) == [k \in DOMAIN cache \ {key} |-> cache[k]]

\* a dict in which the email is stored under the email, not the mobile
users_put_by_email(users, mobile, email) ==
    [k \in DOMAIN users \cup {email} |-> IF k = email THEN mobile ELSE users[k]]

\* registered_users[mobile] = email
users_put(users, mobile, email) ==
    [k \in DOMAIN users \cup {mobile} |-> IF k = mobile THEN email ELSE users[k]]

\* JsonResponse(body, status=status)
JsonResponse(body, status) == [status |-> status, body |-> body]

\* the requests sent to send_signup_otp and send_login_otp
SendRequests ==
    [view : {"send_signup_otp"}, method : {"POST"}, email : {" A@x.org ", None},
     mobile : {"+1 5"}]
    \cup [view : {"send_login_otp"}, method : {"POST", "GET"}, email : {" A@x.org "},
          mobile : {None}]

\* the requests sent to verify_signup_otp and verify_login_otp
VerifyRequests ==
    [view : {"verify_signup_otp"}, method : {"POST"}, email : {" A@x.org "},
     mobile : {"+1 5"}, otp : {"111111", " 222222 "}]
    \cup [view : {"verify_signup_otp"}, method : {"POST", "GET"}, email : {" A@x.org "},
          mobile : {"2"}, otp : {"111111"}]
    \cup [view : {"verify_login_otp"}, method : {"POST"}, email : {" A@x.org "},
          mobile : {None}, otp : {"111111", None}]

\* pc and locals are functions of the thread; fn, args and ret are the view,
\* the request and the answer of the request answered last
InitOtp ==
    /\ pc = [t \in Threads |-> "ready"]
    /\ locals = [t \in Threads |-> <<>>]
    /\ fn = "none"
    /\ args = <<>>
    /\ ret = [none |-> TRUE]
    /\ presence = no_flags
    /\ heap = module_tables
    /\ env = [now |-> 0]
    /\ session = <<>>
    /\ cache = <<>>
    /\ registered_users = <<>>
    /\ history = [issued |-> 0, verified |-> [i \in 1..MaxIssued |-> 0]]

\* what no view of this part touches
otp_frame == UNCHANGED <<presence, heap, session>>

\* thread t answers the request
replied(t, request, answer) ==
    /\ fn' = request.view
    /\ args' = request
    /\ ret' = answer
    /\ pc' = [pc EXCEPT ![t] = "ready"]
    /\ locals' = [locals EXCEPT ![t] = <<>>]

invalid_request == JsonResponse([status |-> "error", message |-> "Invalid request"], 405)

\* time passes
TickOtp ==
    /\ env.now + TickSeconds <= MaxNow
    /\ env' = [env EXCEPT !.now = @ + TickSeconds]
    /\ UNCHANGED <<pc, fn, args, ret, locals, cache, registered_users, history>>
    /\ otp_frame

\* send_signup_otp(request) and send_login_otp(request): the password is
\* stored, then mailed; the mail is sent or send_mail raises
SendOtp(t) ==
    /\ pc[t] = "ready"
    /\ \E request \in SendRequests :
          LET email == norm_email(posted(request, "email"))
              mobile == norm_mobile(posted(request, "mobile"))
              signup == request.view = "send_signup_otp"
              refused(answer) ==
                  /\ replied(t, request, answer)
                  /\ UNCHANGED <<cache, history>>
              issue(otp, mailed) ==
                  /\ history.issued < MaxIssued
                  /\ cache' = cache_set(cache_key_of(request.view, email, mobile), otp,
                                        OTP_TTL_SECONDS, env.now, history.issued + 1)
                  /\ history' = [history EXCEPT !.issued = @ + 1]
                  /\ replied(t, request,
                        IF mailed
                        THEN JsonResponse([status |-> "success",
                                           message |-> "OTP sent to your email"], 200)
                        ELSE JsonResponse([status |-> "error",
                                           message |-> "Failed to send OTP"], 500))
          IN  IF request.method # "POST" THEN refused(invalid_request)
              ELSE IF signup /\ (email = "" \/ mobile = "")
                   THEN refused(JsonResponse([status |-> "error",
                                              message |-> "Email and mobile required"], 400))
              ELSE IF ~signup /\ email = ""
                   THEN refused(JsonResponse([status |-> "error",
                                              message |-> "Email required"], 400))
              ELSE \E otp \in Codes, mailed \in BOOLEAN : issue(otp, mailed)
    /\ UNCHANGED <<registered_users, env>>
    /\ otp_frame

\* verify_signup_otp(request) and verify_login_otp(request), up to the test
\* of the stored password
VerifyOtp(t) ==
    /\ pc[t] = "ready"
    /\ \E request \in VerifyRequests :
          LET read(email, mobile, otp, cache_key) ==
                  LET stored_otp == cache_get(cache_key, env.now)
                  IN  IF stored_otp # None /\ stored_otp = otp
                      THEN /\ locals' = [locals EXCEPT ![t] =
                                  [request |-> request, email |-> email, mobile |-> mobile,
                                   otp |-> otp, cache_key |-> cache_key,
                                   stored_otp |-> stored_otp,
                                   issue |-> cache[cache_key].issue]]
                           /\ pc' = [pc EXCEPT ![t] =
                                  IF request.view = "verify_signup_otp" THEN "register"
                                  ELSE "delete"]
                           /\ UNCHANGED <<fn, args, ret>>
                      ELSE replied(t, request, JsonResponse(
                               [status |-> "error",
                                message |-> "Invalid or expired OTP"], 400))
              given(email, mobile) ==
                  read(email, mobile,
                       IF request.otp = None THEN "" ELSE str_of(strip(spell(request.otp))),
                       cache_key_of(request.view, email, mobile))
          IN  IF request.method # "POST" THEN replied(t, request, invalid_request)
              ELSE given(norm_email(posted(request, "email")),
                         norm_mobile(posted(request, "mobile")))
    /\ UNCHANGED <<cache, registered_users, env, history>>
    /\ otp_frame

\* registered_users[mobile] = email
VerifyRegister(t) ==
    /\ pc[t] = "register"
    /\ registered_users' = users_put(registered_users, locals[t].mobile, locals[t].email)
    /\ pc' = [pc EXCEPT ![t] = "delete"]
    /\ UNCHANGED <<fn, args, ret, locals, cache, env, history>>
    /\ otp_frame

\* cache.delete(cache_key), and the answer of a successful verification
VerifyDelete(t) ==
    /\ pc[t] = "delete"
    /\ cache' = cache_delete(locals[t].cache_key)
    /\ history' = [history EXCEPT !.verified[locals[t].issue] = @ + 1]
    /\ replied(t, locals[t].request, JsonResponse(
           [status |-> "success",
            redirect_url |-> IF locals[t].request.view = "verify_signup_otp" THEN "/login"
                             ELSE "/upload_resume"], 200))
    /\ UNCHANGED <<registered_users, env>>
    /\ otp_frame

NextOtp ==
    \/ TickOtp
    \/ \E t \in Threads :
          \/ SendOtp(t)
          \/ VerifyOtp(t)
          \/ VerifyRegister(t)
          \/ VerifyDelete(t)

SpecOtp == InitOtp /\ [][NextOtp]_vars

-----------------------------------------------------------------------------
(* Properties *)

\* a call of calculate_dynamic_ats_score (either implementation) has returned
scored == pc = "return" /\ fn \in {"utils.calculate_dynamic_ats_score",
                                  "score_utils.calculate_dynamic_ats_score"}

\* a call of utils.py's calculate_dynamic_ats_score has returned
scored_utils == pc = "return" /\ fn = "utils.calculate_dynamic_ats_score"

\* a call of ats_resume_scoring (either implementation) has returned
rubric_done == pc = "return" /\ fn \in {"utils.ats_resume_scoring",
                                       "score_utils.ats_resume_scoring"}

\* the five presence categories: flag name -> section name
presence_section ==
    [github |-> "GitHub Profile", leetcode |-> "LeetCode/DSA Skills",
     portfolio |-> "Portfolio Website", linkedin |-> "LinkedIn",
     cert |-> "Certifications & Branding"]

presence_categories == DOMAIN presence_section

RECURSIVE SumOver(_, _)
\* the sum of f[k] over the keys k of the set ks
SumOver(f, ks) ==
    IF ks = {} THEN 0
    ELSE LET k == CHOOSE x \in ks : TRUE IN f[k] + SumOver(f, ks \ {k})

\* the number of presence categories whose test failed
absent_count == Cardinality({c \in presence_categories : ~presence[c]})

\* the grade bands as the specification states them, for the score s / ScoreScale
band(s) ==
    IF s < 50 * ScoreScale THEN "Poor"
    ELSE IF s < 70 * ScoreScale THEN "Average"
    ELSE IF s < 85 * ScoreScale THEN "Good"
    ELSE "Excellent"

\* C1: get_grade_tag maps every score of [0,100] to Poor below 50, Average on
\* [50,70), Good on [70,85) and Excellent from 85 on, and the functions of
\* utils.py and score_utils.py return the same tag for the same score.
C1_GradeBands ==
    (pc = "return" /\ fn \in {"utils.get_grade_tag", "score_utils.get_grade_tag"}) =>
        /\ ret = band(args.score)
        /\ get_grade_tag(args.score) = su_get_grade_tag(args.score)

\* C1 witness: the score 50 was graded Average (the inclusive lower bound)
C1_Witness ==
    /\ pc = "return" /\ fn = "utils.get_grade_tag"
    /\ args.score = 50 * ScoreScale /\ ret = "Average"

\* C2: scoring the empty text with no usernames and no links gives all five
\* presence flags false, score 0 in the five presence categories and exactly
\* five suggestions.
C2_EmptyInputFiveSuggestions ==
    (/\ scored
     /\ args.resume_text = <<>>
     /\ ~truthy(args.github_username) /\ ~truthy(args.leetcode_username)
     /\ args.extracted_links = <<>>) =>
        /\ \A c \in presence_categories : ~presence[c]
        /\ \A c \in presence_categories : ret.sections[presence_section[c]].score = 0
        /\ Len(ret.suggestions) = 5

\* C3: the suggestions list holds exactly one string per presence category
\* whose test failed and none for the others: its strings are distinct and
\* its length is the number of absent categories.
C3_OneSuggestionPerAbsentCategory ==
    scored =>
        /\ Len(ret.suggestions) = absent_count
        /\ \A i, j \in 1..Len(ret.suggestions) :
              ret.suggestions[i] = ret.suggestions[j] => i = j

\* C4: for each presence category whose test passed, the points of the
\* emitted sub-criteria sum to the category's score.
C4_PresentCriteriaSumToScore ==
    scored_utils =>
        \A c \in presence_categories :
            presence[c] =>
                SumSeq(scores_of(ret.sections[presence_section[c]].sub_criteria))
                    = ret.sections[presence_section[c]].score

\* C5: each presence category whose test failed has score 0 and exactly one
\* sub-criterion, which earned 0 points.
C5_AbsentCategoryZero ==
    scored_utils =>
        \A c \in presence_categories :
            ~presence[c] =>
                /\ ret.sections[presence_section[c]].score = 0
                /\ Len(ret.sections[presence_section[c]].sub_criteria) = 1
                /\ ret.sections[presence_section[c]].sub_criteria[1].score = 0

\* C5 witness: a report with the certifications absent and GitHub present
C5_Witness ==
    /\ scored_utils
    /\ ~presence.cert /\ ~presence.linkedin /\ presence.github
    /\ ret.sections["Certifications & Branding"].score = 0
    /\ ret.sections["GitHub Profile"].score > 0

\* C6: the GitHub and LeetCode presence tests are true exactly when the caller
\* supplied a non-empty username or the resume text contains github.com /
\* leetcode.com.
C6_UsernameOrDomainInText ==
    scored =>
        LET text == lower_text(or_empty(args.resume_text))
        IN  /\ presence.github <=>
                  (truthy(args.github_username) \/ contains(text, <<"github", ".com">>))
            /\ presence.leetcode <=>
                  (truthy(args.leetcode_username) \/ contains(text, <<"leetcode", ".com">>))

\* C7: the weight fields of the six category results sum to 100.
C7_WeightsSumTo100 ==
    scored_utils =>
        SumOver([k \in DOMAIN ret.sections |-> ret.sections[k].weight],
                DOMAIN ret.sections) = 100

\* the canonical weights of the specification, by section name
canonical_weight ==
    [k \in DOMAIN su_TECHNICAL_WEIGHTS |->
        CASE k = "GitHub Profile"            -> 25
          [] k = "LeetCode/DSA Skills"       -> 20
          [] k = "Portfolio Website"         -> 20
          [] k = "LinkedIn"                  -> 15
          [] k = "Resume (ATS Score)"        -> 10
          [] k = "Certifications & Branding" -> 10]

\* C8: total_score is the sum of score x weight / 100 over the six categories
\* with the weights 25, 20, 20, 15, 10, 10, rounded to an integer.
C8_TotalUsesCanonicalWeights ==
    scored =>
        ret.total_score =
            round(SumOver([k \in DOMAIN ret.sections |->
                              ret.sections[k].score * canonical_weight[k]],
                          DOMAIN ret.sections), 100)

\* C9: overall_score_average is the unweighted mean of the scores of all the
\* returned sections rounded to a nearest integer, and overall_grade is the
\* grade of that average.
C9_AverageAndGrade ==
    scored =>
        LET n == Cardinality(DOMAIN ret.sections)
            total == SumOver([k \in DOMAIN ret.sections |-> ret.sections[k].score],
                             DOMAIN ret.sections)
            diff == n * ret.overall_score_average - total
        IN  /\ 2 * diff <= n /\ 2 * diff >= -n
            /\ ret.overall_grade = band(ret.overall_score_average * ScoreScale)

\* C9 witness: a report whose mean is not an integer and whose grade is not
\* the grade of its total_score
C9_Witness ==
    /\ scored
    /\ SumOver([k \in DOMAIN ret.sections |-> ret.sections[k].score],
               DOMAIN ret.sections) % 6 # 0
    /\ band(ret.total_score * ScoreScale) # ret.overall_grade

\* C10: the subtotal earned is the sum of the five item scores, lies in
\* [0,15], and score_100 is earned / 15 * 100 rounded, within [0,100].
C10_RubricSubtotal ==
    rubric_done =>
        LET earned == ret.subtotal.earned
            diff == 15 * ret.score_100 - 100 * earned
        IN  /\ Len(ret.items) = 5
            /\ earned = SumSeq([i \in 1..Len(ret.items) |-> ret.items[i].earned])
            /\ earned >= 0 /\ earned <= 15
            /\ 2 * diff <= 15 /\ 2 * diff >= -15
            /\ ret.score_100 >= 0 /\ ret.score_100 <= 100

\* C10 witness: a record earning the full 15 points, and so 100
C10_Witness ==
    /\ pc = "return" /\ fn = "utils.ats_resume_scoring"
    /\ ret.subtotal.earned = 15 /\ ret.score_100 = 100

\* the keys of a metrics record
metric_keys ==
    {"sections_present", "single_column", "text_extractable", "action_verbs_per_bullet",
     "quantified_bullets_ratio", "keyword_match_rate", "pages", "avg_bullets_per_job",
     "repetition_rate", "jargon_rate", "unique_skills_count"}

\* 1 if the condition holds, else 0
one_if(b) == IF b THEN 1 ELSE 0

\* C11: on a metrics record holding the eleven metrics, the five items award
\* layout = one point each for sections_present, single_column,
\* text_extractable; actions = 2/1/0 for action verbs >= 0.8 / >= 0.5 plus
\* 2/1/0 for quantified ratio >= 0.6 / >= 0.3; keywords = 3/2/1/0 for rate
\* >= 0.75 / >= 0.5 / >= 0.3; brevity = 1 if pages <= 2 plus 1 if
\* avg_bullets_per_job <= 7; cleanliness = 1 if repetition_rate <= 0.10 plus 1
\* if jargon_rate <= 0.15 plus 1 if unique_skills_count >= 8.
C11_RubricTable ==
    (rubric_done /\ DOMAIN args.metrics = metric_keys) =>
        LET m == args.metrics
            av == m.action_verbs_per_bullet
            qr == m.quantified_bullets_ratio
            kmr == m.keyword_match_rate
        IN  /\ ret.items[1].earned =
                  one_if(m.sections_present) + one_if(m.single_column)
                  + one_if(m.text_extractable)
            /\ ret.items[2].earned =
                  (IF 10 * av.n >= 8 * av.d THEN 2 ELSE IF 10 * av.n >= 5 * av.d THEN 1 ELSE 0)
                  + (IF 10 * qr.n >= 6 * qr.d THEN 2 ELSE IF 10 * qr.n >= 3 * qr.d THEN 1 ELSE 0)
            /\ ret.items[3].earned =
                  (IF 100 * kmr.n >= 75 * kmr.d THEN 3
                   ELSE IF 10 * kmr.n >= 5 * kmr.d THEN 2
                   ELSE IF 10 * kmr.n >= 3 * kmr.d THEN 1 ELSE 0)
            /\ ret.items[4].earned =
                  one_if(m.pages <= 2)
                  + one_if(m.avg_bullets_per_job.n <= 7 * m.avg_bullets_per_job.d)
            /\ ret.items[5].earned =
                  one_if(100 * m.repetition_rate.n <= 10 * m.repetition_rate.d)
                  + one_if(100 * m.jargon_rate.n <= 15 * m.jargon_rate.d)
                  + one_if(m.unique_skills_count >= 8)

\* C11 witness: every metric exactly on its threshold earns the points
C11_Witness ==
    /\ rubric_done /\ DOMAIN args.metrics = metric_keys
    /\ args.metrics.keyword_match_rate = ratio(3, 4)
    /\ args.metrics.action_verbs_per_bullet = ratio(4, 5)
    /\ args.metrics.quantified_bullets_ratio = ratio(3, 5)
    /\ args.metrics.repetition_rate = ratio(10, 100)
    /\ args.metrics.jargon_rate = ratio(15, 100)
    /\ args.metrics.pages = 2 /\ args.metrics.avg_bullets_per_job = ratio(7, 1)
    /\ args.metrics.unique_skills_count = 8
    /\ ret.items[2].earned = 4 /\ ret.items[3].earned = 3
    /\ ret.items[4].earned = 2 /\ ret.items[5].earned = 3

\* a call of derive_resume_metrics has returned or raised
metrics_done ==
    pc = "return" /\ fn \in {"utils.derive_resume_metrics", "score_utils.derive_resume_metrics"}

\* the call returned a value
returned == "raised" \notin DOMAIN ret

\* 0.0 <= r <= 1.0
in_unit_interval(r) == r.d > 0 /\ 0 <= r.n /\ r.n <= r.d

\* C12: for every resume text and role title the metrics that
\* derive_resume_metrics returns are in their ranges: action_verbs_per_bullet,
\* quantified_bullets_ratio and keyword_match_rate in [0.0, 1.0], pages an
\* integer >= 1, avg_bullets_per_job in [0, 12], unique_skills_count an
\* integer in [0, 15]
C12_MetricRanges ==
    (metrics_done /\ returned) =>
        /\ in_unit_interval(ret.action_verbs_per_bullet)
        /\ in_unit_interval(ret.quantified_bullets_ratio)
        /\ in_unit_interval(ret.keyword_match_rate)
        /\ ret.pages \in Nat /\ ret.pages >= 1
        /\ ret.avg_bullets_per_job.d > 0
        /\ 0 <= ret.avg_bullets_per_job.n
        /\ ret.avg_bullets_per_job.n <= 12 * ret.avg_bullets_per_job.d
        /\ ret.unique_skills_count \in 0..15

\* a document with more than 15 * 50 distinct tokens and more verbs than
\* bullets: the skills count and the verbs-per-bullet ratio are capped
C12_Witness ==
    /\ metrics_done /\ returned
    /\ distinct_tokens(args.resume_text) \div 50 > 15
    /\ ret.unique_skills_count = 15
    /\ ret.pages >= 3

\* the positions in the role's list of the keywords that occur in the
\* normalized text
keyword_hits(text, role) ==
    LET t == normalize_text(text)
    IN  {i \in 1..Len(ROLE_KEYWORDS[role]) : contains(t, spell(ROLE_KEYWORDS[role][i]))}

\* C13: when the role title resolves to a catalog role, keyword_match_rate is
\* (number of the role's keywords that are substrings of the normalized
\* text) / (length of the role's keyword list); "software engineer" with the
\* text "python, docker" gives 2/14
C13_KeywordMatchRate ==
    (metrics_done /\ returned /\ base_role_of(args.role_title) # None) =>
        LET role == base_role_of(args.role_title)
        IN  /\ ret.keyword_match_rate =
                   ratio(Cardinality(keyword_hits(args.resume_text, role)),
                         Len(ROLE_KEYWORDS[role]))
            /\ (role = "software engineer" /\ args.resume_text = spell("python, docker"))
                   => ret.keyword_match_rate = ratio(2, 14)

\* "java" and "javascript" both count for the text "JavaScript"
C13_Witness ==
    /\ metrics_done /\ returned
    /\ args.resume_text = spell("JavaScript")
    /\ base_role_of(args.role_title) = "software engineer"
    /\ ret.keyword_match_rate = ratio(2, 14)

\* the positions in the catalog of the titles contained in the role title
catalog_matches(role_title) ==
    {i \in 1..Len(role_order) :
        contains(str_lower(or_empty(role_title)), str_lower(spell(role_order[i])))}

\* C14: the role is the first catalog title, in catalog order, that is a
\* case-insensitive substring of the role title; when none matches (empty or
\* missing title included) the call raises nothing and keyword_match_rate
\* is 0.0
C14_RoleResolution ==
    (metrics_done /\ args.resume_text # NoneText) =>
        LET found == catalog_matches(args.role_title)
            first == CHOOSE i \in found : \A j \in found : i <= j
        IN  /\ returned
            /\ found = {} => ret.keyword_match_rate = ratio(0, 1)
            /\ found # {} =>
                   ret.keyword_match_rate =
                       keyword_match_rate(args.resume_text, ROLE_KEYWORDS[role_order[first]])

\* "Sales and Marketing" holds two catalog titles and resolves to
\* "marketing", which comes first in the catalog and has 11 keywords
C14_Witness ==
    /\ metrics_done /\ returned
    /\ Cardinality(catalog_matches(args.role_title)) = 2
    /\ ret.keyword_match_rate.d = Len(ROLE_KEYWORDS["marketing"])

\* the text is empty, only whitespace, or missing
blank(text) == text = NoneText \/ \A i \in 1..Len(text) : is_space(text[i])

\* C15: for an empty, whitespace-only or missing resume text
\* derive_resume_metrics raises no error and returns all eleven metrics
C15_NoErrorOnBlankText ==
    (metrics_done /\ blank(args.resume_text)) =>
        /\ returned
        /\ DOMAIN ret = metric_keys

\* a call of extract_and_identify_links has returned
links_done == pc = "return" /\ fn = "utils.extract_and_identify_links"

\* C16: extract_and_identify_links returns no two entries with the same URL:
\* of a URL or email that occurs more than once only the first occurrence is
\* kept
C16_LinksDistinctByUrl ==
    links_done =>
        \A i, j \in 1..Len(ret) : i # j => ret[i].url # ret[j].url

\* C17: every entry that extract_and_identify_links returns for a URL, an
\* email or an anchor has the type of the first rule that matches its URL:
\* github.com, linkedin.com, portfolio host, mailto:, other
C17_TypeByPriority ==
    links_done =>
        \A i \in 1..Len(ret) :
            ret[i].url # NoneText => ret[i].type = classify(ret[i].url)

\* a call of get_cert_suggestions has returned
certs_done ==
    pc = "return" /\ fn \in {"utils.get_cert_suggestions", "score_utils.get_cert_suggestions"}

\* C18: get_cert_suggestions returns exactly 3 items for every domain (empty
\* and None included): the analytical list for "analytical" and "data", the
\* technical list for "technical", "software" and "engineering", the default
\* list for every other value
C18_CertListByDomain ==
    certs_done =>
        LET d == lower(IF truthy(args.domain) THEN args.domain ELSE "")
        IN  /\ Len(ret) = 3
            /\ ret = IF d \in {"analytical", "data"} THEN
                         <<"Google Data Analytics Professional Certificate - Coursera",
                           "IBM Data Science Professional Certificate - Coursera",
                           "Microsoft Certified: Azure Data Scientist Associate">>
                     ELSE IF d \in {"technical", "software", "engineering"} THEN
                         <<"AWS Certified Developer - AWS",
                           "Microsoft Certified: Azure Developer Associate",
                           "Certified Kubernetes Application Developer (CKAD)">>
                     ELSE
                         <<"IBM AI Practitioner - Coursera",
                           "Google Data Analytics Professional Certificate - Coursera",
                           "AWS Certified Developer - AWS">>

\* a profile lookup has returned
lookup_done ==
    pc = "return" /\ fn \in {"utils.get_github_repo_count", "utils.fetch_leetcode_problem_count"}

\* the lookup got a 200 response whose body holds a count
count_received ==
    /\ truthy(args.username)
    /\ args.net.outcome = "response"
    /\ args.net.status = 200
    /\ args.net.body.kind = "count"

\* C19: get_github_repo_count and fetch_leetcode_problem_count never let an
\* error out: they return 0 for an empty username, a response other than
\* 200, a timeout, a network exception and a body that cannot be parsed, and
\* the remote count only on a 200 response
C19_LookupReturnsCountOrZero ==
    lookup_done =>
        ret = IF count_received THEN args.net.body.count ELSE 0

\* a 200 response with the count 7 gives 7
C19_Witness ==
    lookup_done /\ count_received /\ args.net.body.count = 7 /\ ret = 7

\* C20: concurrent invocations of derive_resume_metrics, ats_resume_scoring,
\* get_cert_suggestions and calculate_dynamic_ats_score leave the static
\* tables unchanged and share no mutable state: a report that its caller has
\* not changed is the report the call returns when it runs alone, whatever
\* the other workers did, changing their own reports included
C20_NoSharedState ==
    /\ \A a \in DOMAIN module_tables : a \in DOMAIN heap /\ heap[a] = module_tables[a]
    /\ \A w \in Workers :
          pc[w] = "return" => report_value(w) = result_of(fn[w], args[w])

\* two workers hold reports of the same call of calculate_dynamic_ats_score
\* with certificate recommendations; one has changed the recommendations
\* list of its report, the other reads its own
C20_Witness ==
    \E v, w \in Workers :
        /\ v # w
        /\ pc[v] = "changed" /\ pc[w] = "return"
        /\ fn[v] = "utils.calculate_dynamic_ats_score" /\ fn[w] = fn[v]
        /\ args[v] = args[w]
        /\ \E a \in ret[v].holds :
              a # ret[v].value /\ Len(heap[a]) = 4

normalized_shape ==
    /\ pc = "again" => ret = args.t
    /\ pc \in {"return", "again"} =>
          /\ ret # <<>> => ~is_space(ret[1]) /\ ~is_space(ret[Len(ret)])
          /\ \A i \in 1..(Len(ret) - 1) : ~(is_space(ret[i]) /\ is_space(ret[i + 1]))

only_profile_urls(text) ==
    /\ \E i \in 1..Len(text) : text[i] = "https://"
    /\ \A i \in 1..Len(text) : text[i] # ".io"
    /\ \A i \in 1..Len(text) :
          text[i] = "https://" =>
              \/ /\ i + 2 <= Len(text)
                 /\ text[i + 1] = "GitHub" /\ text[i + 2] = ".com"
              \/ /\ i + 3 <= Len(text)
                 /\ text[i + 1] = "LinkedIn" /\ text[i + 2] = ".com"
                 /\ text[i + 3] = "/in/"

\* C28: a text whose only URLs are GitHub and LinkedIn profile links scores 0
\* for Portfolio Website and gets the portfolio suggestion
C28_PortfolioIndependentOfProfiles ==
    (scored /\ only_profile_urls(or_empty(args.resume_text))) =>
        /\ ret.sections["Portfolio Website"].score = 0
        /\ \E i \in 1..Len(ret.suggestions) :
              ret.suggestions[i] \in
                  {"Publish a simple portfolio with 2-3 best projects.",
                   "Publish a portfolio (Netlify/Vercel/GitHub Pages) with 2-3 write-ups."}

\* the latest request was show_report_technical
shown_technical == pc = "answered" /\ fn = "show_report_technical"

\* C23: show_report_technical renders exactly the context stored by the most
\* recent successful analyze_resume, and computes no score; when no technical
\* context is stored it redirects to the upload page
C23_ReportFromSession ==
    /\ "show_report_technical" \notin history.computing
    /\ stored("resume_context_tech") <=> history.last_technical # <<>>
    /\ shown_technical =>
          IF history.last_technical = <<>> THEN ret = redirect("upload_page")
          ELSE ret = render("resume_result.html", history.last_technical[1])

\* the report is shown after a technical analysis and a later non-technical
\* one: it is the technical report
C23_Witness ==
    /\ shown_technical
    /\ ret.status = 200
    /\ ret.context.ats_score = 40
    /\ ret.context.role = "Software Engineer"
    /\ history.last_analysis # history.last_technical

\* the latest request was download_resume_pdf
downloaded == pc = "answered" /\ fn = "download_resume_pdf"

\* C24: download_resume_pdf renders the context of the last analysis
\* performed, technical or not, and answers 404 only when no analysis has
\* been performed
C24_DownloadLastAnalysis ==
    downloaded =>
        /\ ret.status = 404 => history.last_analysis = <<>>
        /\ ret.status = 200 =>
              /\ history.last_analysis # <<>>
              /\ ret.context = history.last_analysis[1]

\* the grade of every section of a stored breakdown is the grade of its score
graded(sections) ==
    \A k \in DOMAIN sections :
        sections[k].grade = get_grade_tag(sections[k].score * ScoreScale)

\* C25: in the score_breakdown that analyze_resume stores, after the override
\* of "Resume (ATS Score)", each section's grade is get_grade_tag of the
\* section's score
C25_StoredGradesMatchScores ==
    stored("resume_context_tech") =>
        graded(session["resume_context_tech"].score_breakdown)

\* C26: in the stored context overall_score_average is the rounded mean of
\* the six section scores of the stored breakdown, the overridden one
\* included, and overall_grade is its grade
C26_StoredAverageOfStoredScores ==
    stored("resume_context_tech") =>
        LET context == session["resume_context_tech"]
        IN  /\ context.overall_score_average = overall_avg(context.score_breakdown)
            /\ context.overall_grade
                   = get_grade_tag(context.overall_score_average * ScoreScale)

\* the score the rubric gave in the analysis just made, and the score shown
analysis_scores ==
    IF fn = "analyze_resume"
    THEN [raw |-> raw_score_100(args.resume_text,
                                TECH_ROLE_MAP(IF args.tech_role = None
                                              THEN "software_engineer" ELSE args.tech_role)),
          shown |-> session["resume_context_tech"].ats_score]
    ELSE [raw |-> raw_score_100(args.resume_text,
                                IF args.role_title = None THEN "human resources"
                                ELSE args.role_title),
          shown |-> ret.context.ats_score]

\* the latest request was an analysis that ran the rubric
analysis_made ==
    /\ pc = "answered"
    /\ \/ fn = "analyze_resume" /\ ret = redirect("show_report_technical")
       \/ /\ fn = "analyze_resume_v2"
          /\ args.method = "POST" /\ args.resume # None
          /\ ext_of(args.resume) \in {".pdf", ".docx"}
          /\ "context" \in DOMAIN ret

C27_WitnessNonTechnical ==
    /\ analysis_made
    /\ fn = "analyze_resume_v2"
    /\ analysis_scores.raw = 93
    /\ ret.context.ats_score = 89

\* the views that verify a password
verify_views == {"verify_signup_otp", "verify_login_otp"}

\* thread t answers a successful verification in this step
verified_by(t) == pc[t] = "delete" /\ pc'[t] = "ready"

\* thread t reads the stored password and finds the submitted code equal to it
accepted_by(t) == pc[t] = "ready" /\ pc'[t] \in {"register", "delete"}

\* C29: a one-time password is used once: under every interleaving of the
\* send and verify requests each issued password gives at most one successful
\* verification, and a verification succeeds only when the submitted code is,
\* at the moment the cache is read, the password stored under its key: the
\* most recently issued one, not expired and not yet deleted
C29_OtpSingleUse ==
    [][\A t \in Threads :
          /\ verified_by(t) => history'.verified[locals[t].issue] <= 1
          /\ accepted_by(t) =>
                 /\ locals'[t].cache_key \in DOMAIN cache
                 /\ env.now < cache[locals'[t].cache_key].expires
                 /\ cache[locals'[t].cache_key].value = locals'[t].otp
                 /\ cache[locals'[t].cache_key].issue = locals'[t].issue]_vars

\* one issued password has been verified twice
C29_VerifiedTwice == \E i \in 1..MaxIssued : history.verified[i] = 2

\* a verify request is answered with an error in this step
verify_refused ==
    /\ fn' \in verify_views
    /\ "status" \in DOMAIN ret' /\ ret'.status # 200
    /\ pc' = pc /\ env' = env

\* C30: registered_users gains mobile -> email only in a verify_signup_otp
\* of that (email, mobile) pair whose submitted code equals the stored one
\* and which then succeeds; a verify request that fails or is not a POST is
\* answered with an error and leaves the stored passwords and
\* registered_users as they were
C30_RegisteredOnlyByVerifiedSignup ==
    [][/\ registered_users' # registered_users =>
             \E t \in {u \in Threads : pc[u] = "register"} :
                 LET request == locals[t].request
                     email == norm_email(posted(request, "email"))
                     mobile == norm_mobile(posted(request, "mobile"))
                 IN  /\ pc[t] = "register"
                     /\ request.view = "verify_signup_otp" /\ request.method = "POST"
                     /\ locals[t].stored_otp = locals[t].otp
                     /\ locals[t].stored_otp \in Codes
                     /\ pc'[t] = "delete"
                     /\ DOMAIN registered_users' = DOMAIN registered_users \cup {mobile}
                     /\ registered_users'[mobile] = email
                     /\ \A k \in DOMAIN registered_users \ {mobile} :
                           registered_users'[k] = registered_users[k]
       /\ verify_refused =>
             /\ ret'.status \in {400, 405}
             /\ ret'.body.status = "error"
             /\ cache' = cache
             /\ registered_users' = registered_users]_vars

\* "15" -> "a@x.org" is registered, a password is stored, and the latest
\* request, a verify_signup_otp with a code that is not the stored one, was
\* refused
C30_Witness ==
    /\ registered_users = ("15" :> "a@x.org")
    /\ fn = "verify_signup_otp" /\ args.method = "POST" /\ args.mobile = "+1 5"
    /\ ret.status = 400
    /\ <<"signup_otp", "a@x.org", "15">> \in DOMAIN cache
    /\ cache_get(<<"signup_otp", "a@x.org", "15">>, env.now) \notin {None, "111111"}
    /\ args.otp = "111111"

====
